------------------------------ MODULE Bootstrap ------------------------------
(***************************************************************************)
(* The scripts that fill a database: seed_demo, simulate_production and    *)
(* qa_simulator (run_live_demo begins like simulate_production). Each      *)
(* creates in its own session the lines, machines, reasons and shift it    *)
(* does not find; the simulators then post what they generate. Scripts run *)
(* at the same time, are killed, crash and are started again.              *)
(*                                                                         *)
(* A row is its natural key. The database, PostgreSQL at READ COMMITTED,   *)
(* makes an INSERT wait for the transaction that holds the same unique key *)
(* and aborts one of the transactions that wait in a circle. A draft is    *)
(* its external id; its payload is given by the window it is generated     *)
(* for, every interval and event of a window being placed from its start.  *)
(***************************************************************************)
EXTENDS Integers, Sequences, FiniteSets, Functions

CONSTANTS
  Scripts,          (* the processes                                           *)
  Casts,            (* which of them may be used together                      *)
  Kind,             (* Scripts -> "seed", "simulate" or "qa"                   *)
  SeedTopology,     (* keys of the seed's line, machines and planned reason,   *)
  SeedShift,        (* of its shift,                                           *)
  SeedRows,         (* and of its events and record, one event twice           *)
  SimTopology,      (* keys of LINE_CODES and MACHINE_CODES_PER_LINE           *)
  Catalog,          (* REQUIRED_REASON_CATALOG in the order of the dict        *)
  CatalogSorted,    (* and in the order of sorted()                            *)
  SmokeDrafts,      (* external ids of a smoke run,                            *)
  AllDrafts,        (* of a run of the whole topology                          *)
  Start,            (* the --start each simulate_production is given           *)
  MaxTroubles       (* bound: kills, lost answers, failed calls, new runs      *)

ASSUME BootstrapConstants ==
  /\ Casts \subseteq SUBSET Scripts
  /\ Kind \in [Scripts -> {"seed", "simulate", "qa"}]
  /\ IsInjective(Catalog) /\ IsInjective(CatalogSorted)
  /\ Range(Catalog) = Range(CatalogSorted)
  /\ SmokeDrafts \subseteq AllDrafts
  /\ Start \in [Scripts -> {n \in Int : n < 0}] /\ MaxTroubles \in Nat

(* The seed looks for its line first; no simulator has that line, and only    *)
(* the seed has a shift.                                                      *)
ASSUME KeysAreApart ==
  /\ \A keys \in {SeedTopology, SeedRows, SimTopology, Catalog, CatalogSorted} :
       keys \in Seq(Range(keys)) /\ SeedShift \notin Range(keys)
  /\ SeedTopology # << >>
  /\ SeedTopology[1] \notin Range(SimTopology) \union Range(Catalog)

VARIABLES
  rows,             (* key -> number of committed rows                         *)
  own,              (* script -> keys its open transaction has inserted        *)
  behind,           (* script -> sessions open when it crashed that still are  *)
  todo,             (* script -> the statements it has yet to execute          *)
  job,              (* script -> how far it is                                 *)
  posted,           (* external id -> {the window whose payload the row has}   *)
  clock,            (* windows qa_simulator has begun                          *)
  troubles

vars == <<rows, own, behind, todo, job, posted, clock, troubles>>

None == "none"

Reasons == Range(Catalog)

Do(what, keys) == [i \in DOMAIN keys |-> [do |-> what, key |-> keys[i]]]

(* Mutant: the seed would commit its catalogue before it looks for the shift. *)
SeedScriptCommitsEarly ==
  Do("get", SeedTopology \o Catalog) \o Do("commit", <<None>>) \o Do("get", <<SeedShift>>)
    \o Do("create", SeedRows) \o Do("commit", <<None>>)

(* seed_demo.run: one transaction. *)
SeedScript ==
  Do("get", SeedTopology \o Catalog \o <<SeedShift>>)
    \o Do("create", SeedRows) \o Do("commit", <<None>>)

Topology == Do("get", SimTopology) \o Do("commit", <<None>>)

Script(s) ==
  CASE Kind[s] = "seed"     -> SeedScript
    [] Kind[s] = "simulate" -> Topology \o Do("ensure", <<None>>)
    [] Kind[s] = "qa"       -> Topology \o Do("resolve", <<None>>)

Keys == Reasons \union {SeedShift}
          \union Range(SeedTopology) \union Range(SeedRows) \union Range(SimTopology)

(* A statement about no row names none. *)
ASSUME NoneIsNoKey == None \notin Keys

(* The shift table has no UNIQUE. *)
UniqueKeys == Keys \ {SeedShift}

-----------------------------------------------------------------------------
(* Statements. *)

Next1(s) == Head(todo[s])

Ready(s, what) == job[s].pc = "sql" /\ todo[s] # << >> /\ Next1(s).do = what

Visible(s, key) == rows[key] > 0 \/ key \in own[s]

Waits(s, t) ==
  /\ s # t /\ job[s].pc = "sql" /\ todo[s] # << >>
  /\ Next1(s).do \in {"insert", "create"}
  /\ Next1(s).key \in UniqueKeys \intersect own[t]

(* A session ends. *)
Leave(s, left) ==
  behind' = [t \in Scripts |-> IF t = s THEN left ELSE behind[t] \ {s}]

(* An exception leaves main: the session rolls back. *)
Crash(s) ==
  /\ Leave(s, {t \in Scripts \ {s} : job[t].pc = "sql"})
  /\ own' = [own EXCEPT ![s] = {}]
  /\ todo' = [todo EXCEPT ![s] = << >>]
  /\ job' = [job EXCEPT ![s].pc = "crashed"]
  /\ UNCHANGED <<rows, posted>>

Done(s) == todo' = [todo EXCEPT ![s] = Tail(@)]

(* The SELECT of a _get_or_create function. *)
Get(s) ==
  /\ Ready(s, "get")
  /\ IF Visible(s, Next1(s).key)
       THEN Done(s)
       ELSE todo' = [todo EXCEPT ![s] = Do("insert", <<Next1(s).key>>) \o Tail(@)]
  /\ UNCHANGED <<rows, own, behind, job, posted, clock, troubles>>

(* Its INSERT, and one of _ensure_reason_catalog: nothing catches what the    *)
(* unique key refuses.                                                        *)
Insert(s) ==
  /\ Ready(s, "insert") /\ \A t \in Scripts : ~Waits(s, t)
  /\ IF Next1(s).key \in UniqueKeys /\ rows[Next1(s).key] > 0
       THEN Crash(s)
       ELSE /\ own' = [own EXCEPT ![s] = @ \union {Next1(s).key}]
            /\ Done(s)
            /\ UNCHANGED <<rows, behind, job, posted>>
  /\ UNCHANGED <<clock, troubles>>

(* create_downtime_event and create_production_record in the seed's session:  *)
(* a savepoint, and a second call or run finds the literals of the first.     *)
Create(s) ==
  /\ Ready(s, "create") /\ \A t \in Scripts : ~Waits(s, t)
  /\ own' = [own EXCEPT ![s] = IF Visible(s, Next1(s).key) THEN @ ELSE @ \union {Next1(s).key}]
  /\ Done(s)
  /\ UNCHANGED <<rows, behind, job, posted, clock, troubles>>

(* Mutant: the reasons that are there would be inserted like the missing. *)
EnsureAll(s) ==
  /\ Ready(s, "ensure")
  /\ todo' = [todo EXCEPT ![s] = Do("insert", CatalogSorted) \o Do("commit", <<None>>)]
  /\ UNCHANGED <<rows, own, behind, job, posted, clock, troubles>>

Place(code) == CHOOSE i \in DOMAIN CatalogSorted : CatalogSorted[i] = code

(* _ensure_reason_catalog reads the reasons once and inserts what it missed,  *)
(* in the order of sorted().                                                  *)
Ensure(s) ==
  /\ Ready(s, "ensure")
  /\ LET lacking == {code \in Reasons : ~Visible(s, code)} IN
     \E missing \in [1..Cardinality(lacking) -> lacking] :
       /\ \A i, j \in DOMAIN missing : i < j => Place(missing[i]) < Place(missing[j])
       /\ todo' = [todo EXCEPT ![s] = Do("insert", missing) \o Do("commit", <<None>>)]
  /\ UNCHANGED <<rows, own, behind, job, posted, clock, troubles>>

(* qa_simulator takes the reasons as they are; generate() refuses a lack. *)
Resolve(s) ==
  /\ Ready(s, "resolve")
  /\ IF \A code \in Reasons : Visible(s, code)
       THEN Done(s) /\ UNCHANGED <<rows, own, behind, job, posted>>
       ELSE Crash(s)
  /\ UNCHANGED <<clock, troubles>>

Commit(s) ==
  /\ Ready(s, "commit")
  /\ rows' = [key \in Keys |-> rows[key] + IF key \in own[s] THEN 1 ELSE 0]
  /\ own' = [own EXCEPT ![s] = {}]
  /\ Done(s)
  /\ UNCHANGED <<behind, job, posted, clock, troubles>>

(* The database aborts a transaction that waits for itself. *)
Deadlock(s) ==
  /\ \E t \in Scripts : Waits(s, t)
  /\ \E circle \in SUBSET Scripts :
       /\ s \in circle
       /\ \A x \in circle : /\ \E y \in circle : Waits(x, y)
                            /\ \E y \in circle : Waits(y, x)
  /\ Crash(s)
  /\ UNCHANGED <<clock, troubles>>

-----------------------------------------------------------------------------
(* Transport. A qa run sends each of its batches twice: the smoke one as      *)
(* stages 1 and 2, the acceptance one as 3 and 4.                             *)

Drafts(s, stage) == IF Kind[s] = "qa" /\ stage <= 2 THEN SmokeDrafts ELSE AllDrafts

LastStage(s) ==
  CASE Kind[s] = "simulate"                           -> 1
    [] Kind[s] = "qa" /\ job[s].tier = "smoke"        -> 2
    [] Kind[s] = "qa" /\ job[s].tier = "acceptance"   -> 4

Unanswered(s, stage) == [d \in Drafts(s, stage) |-> "pending"]

Idle == [pc |-> "idle", tier |-> "smoke", stage |-> 0, windows |-> << >>,
         answer |-> << >>, first |-> << >>, finding |-> FALSE]

(* What follows the session: the seed returns, a simulator generates and      *)
(* begins to post.                                                            *)
Bootstrapped(s) ==
  /\ job[s].pc = "sql" /\ todo[s] = << >> /\ Leave(s, {})
  /\ IF Kind[s] = "seed"
       THEN job' = [job EXCEPT ![s].pc = "exited"] /\ UNCHANGED clock
       ELSE /\ job' = [job EXCEPT ![s] =
                 [@ EXCEPT !.pc = "posting", !.stage = 1, !.answer = Unanswered(s, 1),
                           !.windows = IF Kind[s] = "qa" THEN <<clock>> ELSE <<Start[s]>>]]
            /\ clock' = IF Kind[s] = "qa" THEN clock + 1 ELSE clock
  /\ UNCHANGED <<rows, own, todo, posted, troubles>>

Window(s) == job[s].windows[Len(job[s].windows)]

(* The server's answer to an idempotent POST. *)
Answer(d, window) ==
  CASE posted[d] = {}         -> "created"
    [] posted[d] = {window}   -> "existing"
    [] OTHER                  -> "failed"        (* 409 *)

Answered(s, d, answer) == job' = [job EXCEPT ![s].answer[d] = answer]

Store(d, window) ==
  posted' = [posted EXCEPT ![d] = IF @ = {} THEN {window} ELSE @]

Pending(s, d) ==
  job[s].pc = "posting" /\ d \in DOMAIN job[s].answer /\ job[s].answer[d] = "pending"

Post(s, d) ==
  /\ Pending(s, d)
  /\ Answered(s, d, Answer(d, Window(s)))
  /\ Store(d, Window(s))
  /\ UNCHANGED <<rows, own, behind, todo, clock, troubles>>

(* The first answer is lost and the call resent, or no attempt is answered,   *)
(* served or not.                                                             *)
PostInTrouble(s, d) ==
  /\ Pending(s, d) /\ troubles < MaxTroubles
  /\ troubles' = troubles + 1
  /\ \/ /\ Store(d, Window(s))
        /\ Answered(s, d, IF Answer(d, Window(s)) = "failed" THEN "failed" ELSE "existing")
     \/ /\ Store(d, Window(s)) \/ UNCHANGED posted
        /\ Answered(s, d, "failed")
  /\ UNCHANGED <<rows, own, behind, todo, clock>>

Count(answers, kind, how) ==
  Cardinality({d \in DOMAIN answers : d.kind = kind /\ answers[d] = how})

(* check_idempotency finds nothing. *)
IdempotentRepeat(first, second) ==
  \A kind \in {"production", "downtime"} :
    /\ Count(second, kind, "created") = 0
    /\ Count(second, kind, "existing") =
         Count(first, kind, "created") + Count(first, kind, "existing")

(* Mutant: the failures of the first transport would only be printed. *)
OnlyRepeatsAreChecked(s) ==
  job[s].stage % 2 = 0 /\ ~IdempotentRepeat(job[s].first, job[s].answer)

(* A failure of a first transport, or a second that is not all no-ops. *)
StageFinding(s) ==
  IF job[s].stage % 2 = 1
    THEN \E d \in DOMAIN job[s].answer : job[s].answer[d] = "failed"
    ELSE ~IdempotentRepeat(job[s].first, job[s].answer)

(* The next stage of a qa run. *)
NextStage(s) ==
  LET stage == job[s].stage + 1 IN
  /\ job' = [job EXCEPT ![s] =
       [@ EXCEPT !.stage = stage, !.answer = Unanswered(s, stage),
                 !.first = job[s].answer, !.finding = job[s].finding \/ StageFinding(s),
                 !.windows = IF stage = 3 THEN Append(job[s].windows, clock)
                                          ELSE job[s].windows]]
  /\ clock' = IF stage = 3 THEN clock + 1 ELSE clock

(* main returns; an acceptance run may find a band exceeded. *)
Return(s) ==
  /\ \E outOfBand \in (IF job[s].stage = 4 THEN BOOLEAN ELSE {FALSE}) :
       job' = [job EXCEPT ![s] =
         [@ EXCEPT !.pc = "exited",
                   !.finding = job[s].finding \/ StageFinding(s) \/ outOfBand]]
  /\ UNCHANGED clock

EndOfTransport(s) ==
  /\ job[s].pc = "posting" /\ \A d \in DOMAIN job[s].answer : ~Pending(s, d)
  /\ IF job[s].stage < LastStage(s) THEN NextStage(s) ELSE Return(s)
  /\ UNCHANGED <<rows, own, behind, todo, posted, troubles>>

-----------------------------------------------------------------------------
Launch(s, tier) ==
  /\ job' = [job EXCEPT ![s] = [Idle EXCEPT !.pc = "sql", !.tier = tier]]
  /\ todo' = [todo EXCEPT ![s] = Script(s)]
  /\ UNCHANGED <<rows, own, behind, posted, clock>>

Tiers(s) == IF Kind[s] = "qa" THEN {"smoke", "acceptance"} ELSE {"smoke"}

(* A script is started, and again when it has crashed: by cron a quarter of   *)
(* an hour later, or by hand, when the sessions it ran into have ended.       *)
Run(s) ==
  /\ job[s].pc \in {"idle", "crashed"} /\ behind[s] = {}
  /\ \E tier \in Tiers(s) : Launch(s, tier)
  /\ UNCHANGED troubles

RunAgain(s) ==
  /\ job[s].pc = "exited" /\ troubles < MaxTroubles
  /\ \E tier \in Tiers(s) : Launch(s, tier)
  /\ troubles' = troubles + 1

Kill(s) ==
  /\ job[s].pc \in {"sql", "posting"} /\ troubles < MaxTroubles
  /\ Crash(s)
  /\ troubles' = troubles + 1
  /\ UNCHANGED clock

Init ==
  /\ rows = [key \in Keys |-> 0]
  /\ own = [s \in Scripts |-> {}] /\ behind = [s \in Scripts |-> {}]
  /\ todo = [s \in Scripts |-> << >>]
  /\ \E cast \in Casts :
       job = [s \in Scripts |-> IF s \in cast THEN Idle ELSE [Idle EXCEPT !.pc = "unused"]]
  /\ posted = [d \in AllDrafts |-> {}]
  /\ clock = 0 /\ troubles = 0

Statement(s) ==
  Get(s) \/ Insert(s) \/ Create(s) \/ Ensure(s) \/ Resolve(s) \/ Commit(s) \/ Bootstrapped(s)

Next ==
  \E s \in Scripts :
    \/ Statement(s) \/ Deadlock(s)
    \/ \E d \in AllDrafts : Post(s, d) \/ PostInTrouble(s, d)
    \/ EndOfTransport(s)
    \/ Run(s) \/ RunAgain(s) \/ Kill(s)

(* Scripts and database go on, the database resolves deadlocks, and crashed   *)
(* scripts are started again.                                                 *)
Spec ==
  /\ Init /\ [][Next]_vars
  /\ \A s \in Scripts : WF_vars(Statement(s)) /\ WF_vars(Run(s))
  /\ WF_vars(\E s \in Scripts : Deadlock(s))

-----------------------------------------------------------------------------
(* However scripts interleave, no natural key has two rows, not even the      *)
(* shift, which only a look-up before the INSERT guards: the line, inserted   *)
(* earlier in the same transaction, keeps two first seeds apart (the docstring *)
(* of seed_demo: no run duplicates rows).                                     *)
NoDuplicates == \A key \in Keys : rows[key] <= 1

(* A script that returned without a finding has all it creates in the         *)
(* database, and every draft of every window it posted stored as it was       *)
(* generated, whatever was lost or resent and whoever else posted the ids.    *)
PassMeansStored ==
  \A s \in Scripts : job[s].pc = "exited" /\ ~job[s].finding =>
    /\ \A i \in DOMAIN Script(s) : Script(s)[i].key \in Keys => rows[Script(s)[i].key] > 0
    /\ Kind[s] # "seed" => \A code \in Reasons : rows[code] > 0
    /\ \A i \in DOMAIN job[s].windows :
         \A d \in Drafts(s, 2 * i) : posted[d] = {job[s].windows[i]}

(* Refused keys, deadlocks (the seed and _ensure_reason_catalog insert the    *)
(* reasons in different orders), missing reasons and kills only delay a       *)
(* script: started again, each one gets through its bootstrap.                *)
BootstrapsConverge ==
  \A s \in Scripts : <>(job[s].pc \in {"posting", "exited", "unused"})
=============================================================================
