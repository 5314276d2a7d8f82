--------------------------- MODULE Deployment_proofs ---------------------------
(***************************************************************************)
(* What Deployment guarantees for any number of migrations and clients,    *)
(* any configurations and any tables found at first.                       *)
(*                                                                         *)
(* Tables only ever get current, so what a process has seen of them, or    *)
(* made of them, stays.  RunInv says how far each process has come.        *)
(***************************************************************************)
EXTENDS Deployment, ApiServer_proofs

Versions == {"missing", "old", "current"}
Places == {"absent", "off", "ready", "checking", "checked", "migrating", "migrated", "up"}

\* What is left to check or migrate.
OnlyLast == <<"token_jobs">>
Remains == {<< >>, OnlyLast, MigrationModels}

DeploymentTypeOK ==
    /\ schema \in [Databases -> [Tables -> Versions]]
    /\ at \in [Processes -> Places]
    /\ todo \in [Processes -> Remains]
    /\ seen \in [Processes -> Versions \cup {"nothing"}]

\* A process is connected, and the tables it has left behind are as they must be.
RunInvOf(p) ==
    /\ at[p] \notin {"absent", "off"} => Connects(p)
    /\ at[p] = "up" => p = Api
    /\ at[p] = "ready" => p \in Clients
    /\ at[p] \in {"checking", "migrating"} => todo[p] # << >>
    /\ at[p] = "checking" /\ todo[p] = OnlyLast => schema[DatabaseFor(p)]["prompt_configs"] # "missing"
    /\ at[p] \in {"checked", "up"} => Tabled(p)
    /\ at[p] = "migrating" /\ todo[p] = OnlyLast => schema[DatabaseFor(p)]["prompt_configs"] = "current"
    /\ at[p] = "migrated" => Migrated(p)

RunInv == DeploymentTypeOK /\ \A p \in Processes : RunInvOf(p)

\* The state of the list of tables, in words.
LEMMA Lists ==
    /\ Tables = {"prompt_configs", "token_jobs"}
    /\ Head(MigrationModels) = "prompt_configs" /\ Tail(MigrationModels) = OnlyLast
    /\ Head(OnlyLast) = "token_jobs" /\ Tail(OnlyLast) = << >>
    /\ Len(MigrationModels) = 2 /\ Len(OnlyLast) = 1
    /\ MigrationModels # OnlyLast /\ MigrationModels # << >> /\ OnlyLast # << >>
BY DEF Tables, MigrationModels, OnlyLast

LEMMA RunInvInit == DeploymentInit => RunInv
<1>. SUFFICES ASSUME DeploymentInit PROVE RunInv
  OBVIOUS
<1>1. Found \subseteq [Tables -> Versions]
  BY DeploymentAssumption, Lists DEF Versions
<1>2. schema \in [Databases -> [Tables -> Versions]]
  BY <1>1 DEF DeploymentInit
<1>3. at \in [Processes -> {"off", "absent"}]
  BY DEF DeploymentInit
<1>. QED
  BY <1>2, <1>3 DEF DeploymentInit, RunInv, DeploymentTypeOK, RunInvOf, Places, Remains, Versions

\* A step changes no table but to make it current.
Improves == \A d \in Databases, m \in Tables : schema'[d][m] \in {schema[d][m], "current"}

\* What is known of a process that does nothing itself stays true.
LEMMA OthersKeep ==
    ASSUME RunInv, Improves, NEW p \in Processes,
           at'[p] = at[p], todo'[p] = todo[p]
    PROVE  RunInvOf(p)'
<1>. DatabaseFor(p)' = DatabaseFor(p) /\ Connects(p)' = Connects(p)
  BY DEF DatabaseFor, Connects
<1>. Connects(p) => DatabaseFor(p) \in Databases
  BY DEF Databases
<1>. QED
  BY Lists DEF RunInv, RunInvOf, Improves, Tabled, Migrated

\* So a step of process p is right if it is so for p.
LEMMA OneMoves ==
    ASSUME RunInv, NEW p \in Processes, DeploymentTypeOK', Improves,
           \A q \in Processes \ {p} : at'[q] = at[q] /\ todo'[q] = todo[q],
           RunInvOf(p)'
    PROVE  RunInv'
BY OthersKeep DEF RunInv

\* What a step of process p may do besides moving p.
Moves(p) ==
    /\ \A q \in Processes \ {p} : at'[q] = at[q] /\ todo'[q] = todo[q]
    /\ DeploymentTypeOK'
    /\ Improves

LEMMA StartsKeep ==
    ASSUME RunInv, NEW p \in Processes, Connect(p) \/ Call(p)
    PROVE  RunInv'
<1>1. Moves(p)
  BY Lists DEF Connect, Call, Goto, Moves, RunInv, DeploymentTypeOK, Improves, Places, Remains
<1>2. RunInvOf(p)'
  <2>1. CASE Connect(p)
    BY <2>1, Lists, DeploymentAssumption DEF Connect, Goto, RunInv, RunInvOf, DeploymentTypeOK, Connects, Processes
  <2>2. CASE Call(p)
    BY <2>2, Lists DEF Call, Goto, RunInv, RunInvOf, DeploymentTypeOK, Connects, Processes
  <2>. QED
    BY <2>1, <2>2
<1>. QED
  BY <1>1, <1>2, OneMoves DEF Moves

LEMMA EndsKeep ==
    ASSUME RunInv, NEW p \in Processes, CheckFails(p) \/ Kill(p)
    PROVE  RunInv'
<1>1. Moves(p)
  BY DEF CheckFails, Kill, Fail, GiveUp, Goto, Moves, RunInv, DeploymentTypeOK, Improves, Places,
         Remains, Versions
<1>2. RunInvOf(p)'
  BY DEF CheckFails, Kill, Fail, GiveUp, Goto, RunInv, RunInvOf, DeploymentTypeOK, Connects
<1>. QED
  BY <1>1, <1>2, OneMoves DEF Moves

\* The tables behind a process that goes on to the next one.
LEMMA CheckKeeps ==
    ASSUME RunInv, NEW p \in Processes, CheckTable(p)
    PROVE  RunInv'
<1>0. at[p] = "checking" /\ todo[p] \in {OnlyLast, MigrationModels} /\ p \in DOMAIN at /\ Connects(p)
  BY DEF CheckTable, RunInv, RunInvOf, DeploymentTypeOK, Remains
<1>1. Moves(p)
  BY <1>0, Lists DEF CheckTable, Proceed, Goto, Moves, RunInv, DeploymentTypeOK, Improves, Places,
         Remains
<1>2. RunInvOf(p)'
  <2>0. DatabaseFor(p)' = DatabaseFor(p) /\ Connects(p)' = Connects(p)
    BY DEF DatabaseFor, Connects
  <2>1. CASE todo[p] = MigrationModels
    BY <1>0, <2>0, <2>1, Lists
    DEF CheckTable, Proceed, Goto, Table, RunInv, RunInvOf, DeploymentTypeOK
  <2>2. CASE todo[p] = OnlyLast
    BY <1>0, <2>0, <2>2, Lists
    DEF CheckTable, Proceed, Goto, Table, RunInv, RunInvOf, DeploymentTypeOK, Tabled
  <2>. QED
    BY <1>0, <2>1, <2>2
<1>. QED
  BY <1>1, <1>2, OneMoves DEF Moves

LEMMA LookUpKeeps ==
    ASSUME RunInv, NEW p \in Processes, LookUp(p)
    PROVE  RunInv'
<1>0. todo[p] \in {OnlyLast, MigrationModels} /\ DatabaseFor(p) \in Databases
  BY DEF LookUp, RunInv, RunInvOf, DeploymentTypeOK, Remains, Databases
<1>1. Table(p) \in Versions
  BY <1>0, Lists DEF Table, RunInv, DeploymentTypeOK
<1>2. Moves(p)
  BY <1>1 DEF LookUp, Moves, RunInv, DeploymentTypeOK, Improves, Versions
<1>3. RunInvOf(p)'
  BY <1>2, OthersKeep DEF LookUp, Moves
<1>. QED
  BY <1>2, <1>3, OneMoves DEF Moves

\* A table made current changes nothing else.
LEMMA CurrentImproves ==
    ASSUME RunInv, NEW p \in Processes, at[p] = "migrating"
    PROVE  /\ todo[p] \in {OnlyLast, MigrationModels}
           /\ DatabaseFor(p) \in Databases
           /\ Head(todo[p]) \in Tables
           /\ Current(p) \in [Databases -> [Tables -> Versions]]
           /\ Current(p)[DatabaseFor(p)][Head(todo[p])] = "current"
           /\ \A d \in Databases, m \in Tables : Current(p)[d][m] \in {schema[d][m], "current"}
<1>1. todo[p] \in {OnlyLast, MigrationModels} /\ DatabaseFor(p) \in Databases
  BY DEF RunInv, RunInvOf, DeploymentTypeOK, Remains, Databases
<1>2. Head(todo[p]) \in Tables
  BY <1>1, Lists
<1>3. schema \in [Databases -> [Tables -> Versions]]
  BY DEF RunInv, DeploymentTypeOK
<1>. QED
  BY <1>1, <1>2, <1>3 DEF Current, Versions

LEMMA ApplyKeeps ==
    ASSUME RunInv, NEW p \in Processes, Apply(p)
    PROVE  RunInv'
<1>0. at[p] = "migrating" /\ schema' = Current(p)
  BY DEF Apply
<1>1. Moves(p)
  BY <1>0, CurrentImproves, Lists
  DEF Apply, Proceed, Goto, Moves, RunInv, DeploymentTypeOK, Improves, Places, Remains
<1>2. RunInvOf(p)'
  <2>0. DatabaseFor(p)' = DatabaseFor(p) /\ Connects(p)' = Connects(p)
    BY DEF DatabaseFor, Connects
  <2>1. CASE todo[p] = MigrationModels
    BY <1>0, <2>0, <2>1, CurrentImproves, Lists
    DEF Apply, Proceed, Goto, RunInv, RunInvOf, DeploymentTypeOK
  <2>2. CASE todo[p] = OnlyLast
    BY <1>0, <2>0, <2>2, CurrentImproves, Lists
    DEF Apply, Proceed, Goto, RunInv, RunInvOf, DeploymentTypeOK, Migrated
  <2>. QED
    BY <1>0, CurrentImproves, <2>1, <2>2
<1>. QED
  BY <1>1, <1>2, OneMoves DEF Moves

LEMMA ApplyFailsKeeps ==
    ASSUME RunInv, NEW p \in Processes, ApplyFails(p)
    PROVE  RunInv'
<1>0. at[p] = "migrating" /\ schema' \in {schema, Current(p)}
  BY DEF ApplyFails
<1>1. Moves(p)
  BY <1>0, CurrentImproves
  DEF ApplyFails, Fail, GiveUp, Goto, Moves, RunInv, DeploymentTypeOK, Improves, Places, Remains, Versions
<1>2. RunInvOf(p)'
  BY DEF ApplyFails, Fail, GiveUp, Goto, RunInv, RunInvOf, DeploymentTypeOK, Connects
<1>. QED
  BY <1>1, <1>2, OneMoves DEF Moves

LEMMA AssembleKeeps ==
    ASSUME RunInv, Assemble
    PROVE  RunInv'
<1>0. Api \in Processes
  BY DEF Processes
<1>1. Moves(Api)
  BY DEF Assemble, Goto, Moves, RunInv, DeploymentTypeOK, Improves, Places
<1>2. RunInvOf(Api)'
  BY <1>0 DEF Assemble, Goto, RunInv, RunInvOf, DeploymentTypeOK, Connects, DatabaseFor, Tabled
<1>. QED
  BY <1>0, <1>1, <1>2, OneMoves DEF Moves

LEMMA RunInvNext == RunInv /\ [DeploymentNext]_deploymentVars => RunInv'
<1>. SUFFICES ASSUME RunInv, [DeploymentNext]_deploymentVars PROVE RunInv'
  OBVIOUS
<1>1. CASE UNCHANGED deployVars
  BY <1>1 DEF deployVars, RunInv, RunInvOf, DeploymentTypeOK, Connects, DatabaseFor, Tabled, Migrated
<1>2. ASSUME NEW p \in Processes, ProcessStep(p) PROVE RunInv'
  BY <1>2, StartsKeep, EndsKeep, CheckKeeps, LookUpKeeps, ApplyKeeps, ApplyFailsKeeps DEF ProcessStep
<1>. QED
  BY <1>1, <1>2, AssembleKeeps DEF DeploymentNext, Serving, deploymentVars

LEMMA RunInvariant == DeploymentSpec => []RunInv
BY RunInvInit, RunInvNext, PTL DEF DeploymentSpec

-----------------------------------------------------------------------------
\* Success of a migration means that every table is current, in the database
\* of the process that reports it, whoever else migrates.
THEOREM SuccessMeansCurrent == DeploymentSpec => []MigratedMeansCurrent
<1>1. RunInv => MigratedMeansCurrent
  BY DEF RunInv, RunInvOf, MigratedMeansCurrent
<1>. QED
  BY <1>1, RunInvariant, PTL

\* The API server serves, and CheckMigration succeeds, with all tables there.
THEOREM TablesComeFirst == DeploymentSpec => []TablesBeforeCalls
<1>1. RunInv => TablesBeforeCalls
  BY DEF RunInv, RunInvOf, TablesBeforeCalls, Processes
<1>. QED
  BY <1>1, RunInvariant, PTL

-----------------------------------------------------------------------------
(* The server through all its restarts *)

LEMMA ServerInvKept == ServerInv /\ [DeploymentNext]_deploymentVars => ServerInv'
<1>. SUFFICES ASSUME ServerInv, [DeploymentNext]_deploymentVars PROVE ServerInv'
  OBVIOUS
<1>1. CASE [ServerNext]_serverVars
  BY <1>1, ServerInvNext
<1>2. CASE Assemble
  <2>1. ServerInit'
    BY <1>2 DEF Assemble, ServerInit
  <2>2. ServerInit' => ServerInv'
    BY DEF ServerInit, ServerInv, ServerTypeOK, StopInv, DrainInv, ChannelInv, ClientInv,
           Unfinished, Connected, Alive
  <2>. QED
    BY <2>1, <2>2
<1>3. ASSUME NEW p \in Processes, ProcessStep(p) PROVE UNCHANGED serverVars
  BY <1>3 DEF ProcessStep, Connect, Call, CheckTable, CheckFails, LookUp, Apply, ApplyFails, Kill
<1>. QED
  BY <1>1, <1>2, <1>3 DEF DeploymentNext, Serving, deploymentVars

\* However often the server is restarted, its main returns last each time, its
\* closing is announced, and no client holds up its end.
THEOREM RestartsKeepOrder ==
    DeploymentSpec => [](NothingLeftBehind /\ ClosingIsAnnounced /\ NoClientHoldsUpTheEnd)
<1>1. DeploymentInit => ServerInv
  BY ServerInvInit DEF DeploymentInit
<1>2. ServerInv => NothingLeftBehind /\ ClosingIsAnnounced /\ NoClientHoldsUpTheEnd
  BY EndNeedsNoClient DEF ServerInv, DrainInv, ChannelInv, NothingLeftBehind, StopInv, ClosingIsAnnounced
<1>. QED
  BY <1>1, <1>2, ServerInvKept, PTL DEF DeploymentSpec
=============================================================================
