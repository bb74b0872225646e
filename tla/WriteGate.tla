------------------------------ MODULE WriteGate ------------------------------
(***************************************************************************)
(* What a write passes before its handler runs: the settings a process     *)
(* reads once, the refusal to start a production process without a key,    *)
(* require_api_key, and the rate limiter with its exemption for trusted    *)
(* ingest; and the client that backs off and tries again. Processes        *)
(* restart with another environment and with an empty limiter.             *)
(*                                                                         *)
(* Time is kept in timers that count down: what is left of a limiter       *)
(* window and of a client's sleep. FastAPI and slowapi are external: the   *)
(* dependencies (the key) are resolved before the decorated endpoint, the  *)
(* limit, charges the call; a window begins with its first call.           *)
(***************************************************************************)
EXTENDS Integers, Functions

CONSTANTS
  Budgets,          (* what the limiter counts apart: address and endpoint     *)
  Limit,            (* DEFAULT_RATE_LIMIT: this many calls                     *)
  Minute,           (* in so many seconds                                      *)
  Attempts,         (* RETRY_MAX_ATTEMPTS                                      *)
  BaseDelay,        (* RETRY_BASE_DELAY_SECONDS                                *)
  MaxDelay,         (* RETRY_MAX_DELAY_SECONDS                                 *)
  Environments,     (* [production, key, token]: what a process may be started *)
                    (* with                                                    *)
  Credentials,      (* [key, token]: the headers a caller sends                *)
  Missing,          (* a variable or header that is unset or blank             *)
  Workers,          (* of a transport() pool                                   *)
  BudgetOf          (* Workers -> the budget their calls are charged to        *)

ASSUME GateConstants ==
  /\ {Limit, Minute, Attempts, BaseDelay, MaxDelay} \subseteq Nat \ {0}
  /\ \A e \in Environments : e.production \in BOOLEAN
  /\ BudgetOf \in [Workers -> Budgets]

VARIABLES
  settings,         (* get_settings() of the running process, {} when down     *)
  window,           (* budget -> seconds left of its window, calls in it       *)
  recent,           (* history: budget -> age -> calls admitted that long ago, *)
                    (* in this process                                         *)
  call,             (* worker -> the call it is making                         *)
  breaches          (* history: what calls without the key have achieved       *)

vars == <<settings, window, recent, call, breaches>>

Up == settings # {}
Setting == CHOOSE e \in settings : TRUE

MinOf(a, b) == IF a < b THEN a ELSE b

Ages == 1..Minute

NoCalls == [b \in Budgets |-> [age \in Ages |-> 0]]
NoWindows == [b \in Budgets |-> [left |-> 0, hits |-> 0]]

(* outnumbered counts the others' calls admitted since the first attempt.     *)
NoCall == [attempt |-> 0, wait |-> 0, outnumbered |-> 0, undisturbed |-> TRUE,
           cred |-> {}, outcome |-> "none"]

-----------------------------------------------------------------------------
(* The process. *)

ProductionKeyMissing(e) == e.production /\ e.key = Missing

(* GET /ready. *)
Readiness(e, reachable) ==
  CASE ProductionKeyMissing(e)                 -> "missing_api_key"
    [] ~ProductionKeyMissing(e) /\ reachable   -> "ready"
    [] OTHER                                   -> "unreachable"

(* Mutant: any key would do. *)
SomeKey(e, cred) ==
  IF e.key = Missing
    THEN IF e.production THEN "503" ELSE "pass"
    ELSE IF cred.key = Missing THEN "401" ELSE "pass"

RequireApiKey(e, cred) ==
  IF e.key = Missing
    THEN IF e.production THEN "503" ELSE "pass"
    ELSE IF cred.key # e.key THEN "401" ELSE "pass"

(* Mutant: any token would do. *)
SomeToken(e, cred) == e.token # Missing /\ cred.token # Missing

IsTrustedIngest(e, cred) == e.token # Missing /\ cred.token = e.token

(* The limiter counts every call, refused ones too; beyond the limit all      *)
(* counts are alike.                                                          *)
Hit(w) ==
  IF w.left = 0 THEN [left |-> Minute, hits |-> 1]
                ELSE [w EXCEPT !.hits = MinOf(@ + 1, Limit + 1)]

(* Serve one call on budget b. The database may fail the handler: a 500.      *)
Answers(b, cred) ==
  LET gate == RequireApiKey(Setting, cred) IN
  CASE gate # "pass"                           -> {gate}
    [] gate = "pass" /\ ~IsTrustedIngest(Setting, cred) /\ Hit(window[b]).hits > Limit
                                               -> {"429"}
    [] OTHER                                   -> {"2xx", "500"}

Charged(cred) ==
  RequireApiKey(Setting, cred) = "pass" /\ ~IsTrustedIngest(Setting, cred)

(* Who is exempt from the limit, in a word, and a call that is not and that   *)
(* reaches its handler.                                                       *)
Trusted(cred) == Setting.token # Missing /\ cred.token = Setting.token

Admitted(cred, answer) == answer \in {"2xx", "500"} /\ ~Trusted(cred)

(* Who may write, in a word: the key's holder, or anybody where none is set   *)
(* outside production.                                                        *)
MayWrite(cred) ==
  (cred.key = Setting.key /\ cred.key # Missing) \/ (Setting.key = Missing /\ ~Setting.production)

(* What a call does to the process. *)
Serve(b, cred, answer) ==
  /\ window' = IF Charged(cred) THEN [window EXCEPT ![b] = Hit(@)] ELSE window
  /\ recent' = IF Admitted(cred, answer) THEN [recent EXCEPT ![b][1] = @ + 1] ELSE recent
  /\ breaches' = breaches \union
       (IF MayWrite(cred) THEN {} ELSE
          (IF answer = "2xx" THEN {"write"} ELSE {})
            \union (IF Charged(cred) THEN {"charge"} ELSE {}))
       \union (IF Readiness(Setting, TRUE) = "missing_api_key" THEN {"unready"} ELSE {})

-----------------------------------------------------------------------------
(* The client. *)

(* After the attempt of this number, counted from 1. *)
Delay(attempt) == MinOf(BaseDelay * 2 ^ (attempt - 1), MaxDelay)

(* The sleeps before the last but one attempt add up to a window, and the     *)
(* last is one: 1 + 2 + 4 + 8 + 16 + 32 and 60 seconds against 60.            *)
ASSUME WaitsOutlastTheWindow ==
  /\ SumFunctionOnSet([n \in 1..Attempts |-> Delay(n)], 1..(Attempts - 2)) >= Minute
  /\ Delay(Attempts - 1) >= Minute

Begin(w) ==
  /\ call[w].attempt = 0
  /\ \E cred \in Credentials :
       call' = [call EXCEPT ![w] = [NoCall EXCEPT !.attempt = 1, !.cred = {cred}]]
  /\ UNCHANGED <<settings, window, recent, breaches>>

(* The others on the budget see one more call admitted. *)
Outnumber(b, self, calls) ==
  [v \in Workers |->
     IF v \notin self /\ BudgetOf[v] = b /\ calls[v].attempt > 0
       THEN [calls[v] EXCEPT !.outnumbered = MinOf(@ + 1, 2 * Limit)]
       ELSE calls[v]]

(* Mutant: a client would give up before its last attempt. *)
AfterTooFew(c, answer) ==
  CASE answer = "2xx"                              -> NoCall
    [] answer \notin {"2xx", "429"}                -> [NoCall EXCEPT !.outcome = "refused"]
    [] answer = "429" /\ c.attempt >= Attempts - 1 -> [c EXCEPT !.attempt = 0, !.outcome = "gave_up"]
    [] answer = "429" /\ c.attempt < Attempts - 1  -> [c EXCEPT !.attempt = @ + 1,
                                                                !.wait = Delay(c.attempt)]

(* An answer ends the call unless it is a 429 and attempts are left. *)
After(c, answer) ==
  CASE answer = "2xx"                            -> NoCall
    [] answer \notin {"2xx", "429"}              -> [NoCall EXCEPT !.outcome = "refused"]
    [] answer = "429" /\ c.attempt = Attempts    -> [c EXCEPT !.attempt = 0, !.outcome = "gave_up"]
    [] answer = "429" /\ c.attempt < Attempts    -> [c EXCEPT !.attempt = @ + 1,
                                                              !.wait = Delay(c.attempt)]

Due(w) == call[w].attempt > 0 /\ call[w].wait = 0

Cred(w) == CHOOSE cred \in call[w].cred : TRUE

Attempt(w) ==
  /\ Up /\ Due(w)
  /\ \E answer \in Answers(BudgetOf[w], Cred(w)) :
       /\ Serve(BudgetOf[w], Cred(w), answer)
       /\ LET calls == [call EXCEPT ![w] = After(@, answer)]
          IN  call' = IF Admitted(Cred(w), answer) THEN Outnumber(BudgetOf[w], {w}, calls)
                                                   ELSE calls
  /\ UNCHANGED settings

(* No connection, or no answer in time: tried again like a 429.              *)
AttemptInVain(w) ==
  /\ ~Up /\ Due(w)
  /\ call' = [call EXCEPT ![w] = [After(@, "429") EXCEPT !.undisturbed = FALSE]]
  /\ UNCHANGED <<settings, window, recent, breaches>>

(* A program that does not try again. *)
OtherCall(b, cred) ==
  /\ Up
  /\ \E answer \in Answers(b, cred) :
       /\ Serve(b, cred, answer)
       /\ call' = IF Admitted(cred, answer) THEN Outnumber(b, {}, call) ELSE call
  /\ UNCHANGED settings

-----------------------------------------------------------------------------
(* The lifespan of main.py: a process without the key it needs does not serve.*)
Start ==
  /\ ~Up
  /\ \E e \in Environments : ~ProductionKeyMissing(e) /\ settings' = {e}
  /\ window' = NoWindows /\ recent' = NoCalls
  /\ UNCHANGED <<call, breaches>>

Stop ==
  /\ Up /\ settings' = {}
  /\ call' = [w \in Workers |-> [call[w] EXCEPT !.undisturbed = FALSE]]
  /\ UNCHANGED <<window, recent, breaches>>

Down(n) == IF n = 0 THEN 0 ELSE n - 1

Tick ==
  /\ window' = [b \in Budgets |->
       IF window[b].left <= 1 THEN NoWindows[b] ELSE [window[b] EXCEPT !.left = @ - 1]]
  /\ recent' = [b \in Budgets |-> [age \in Ages |-> IF age = 1 THEN 0 ELSE recent[b][age - 1]]]
  /\ call' = [w \in Workers |-> [call[w] EXCEPT !.wait = Down(@)]]
  /\ UNCHANGED <<settings, breaches>>

Init ==
  /\ settings = {} /\ window = NoWindows /\ recent = NoCalls
  /\ call = [w \in Workers |-> NoCall] /\ breaches = {}

Next ==
  \/ \E w \in Workers : Begin(w) \/ Attempt(w) \/ AttemptInVain(w)
  \/ \E b \in Budgets, cred \in Credentials : OtherCall(b, cred)
  \/ Start \/ Stop \/ Tick

Spec == Init /\ [][Next]_vars

-----------------------------------------------------------------------------
(* A process admits at most twice the limit on a budget in any minute, the    *)
(* windows being fixed, wherever it begins; only trusted ingest is not        *)
(* counted, and calls with a wrong token are.                                 *)
BurstIsBounded == \A b \in Budgets : SumFunction(recent[b]) <= 2 * Limit

(* A call without the key changes nothing: it is not written, and it does not *)
(* use up the budget of those who share its address; and no process that      *)
(* answers is one that /ready reports to lack its key.                        *)
RefusalsCostNothing == breaches = {}

(* A worker gives a call up to the rate limit only when the limiter has let   *)
(* two full windows of other calls pass since its first attempt: a client     *)
(* alone on its address never does.                                           *)
GivingUpIsOutnumbered ==
  \A w \in Workers : call[w].outcome = "gave_up" /\ call[w].undisturbed =>
    call[w].outnumbered = 2 * Limit
=============================================================================
