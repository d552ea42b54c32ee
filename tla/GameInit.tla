------------------------------- MODULE GameInit -------------------------------
(***************************************************************************)
(* How a game starts on the host: the HTTP handlers of                       *)
(* game-host/src/app/routes/game_init.rs, which collect the players under a  *)
(* join code, and once the game is finalized create its attestation chain    *)
(* and write its contract to the event log, where the litigator finds it.    *)
(*                                                                           *)
(* A handler is a process: each step between two awaits is an action.  Two   *)
(* kinds of mutex order them, the registry's and one per game.  The host may *)
(* crash; it forgets the registry, not the event log.                        *)
(*                                                                           *)
(* A join code is a number, drawn in order.  A chain is named by the code of *)
(* its game, and so is its group in the event log; group 0 is the modules'.  *)
(***************************************************************************)
EXTENDS EventLog

CONSTANTS
    MaxGames,       \* the capacity of by_time (1000 in the code)
    MAX_PLAYERS,    \* 10 in the code
    MaxRequests,    \* bound: the requests of a scenario
    Scenario        \* the requests, the crashes, and what the litigator meets

VARIABLES
    scenario,       \* the one of this behaviour
    host,           \* whether the host runs
    host_faults,    \* crashes and failed external calls still to come
    created,        \* how many codes were drawn, ever
    game,           \* code -> its Metadata, which outlives its place in states
    states, by_time,    \* NewGameDB
    db_lock,        \* the handler that holds the mutex of NewGameDB
    state_lock,     \* code -> the handler that holds Metadata.state
    request,        \* the handlers
    chains,         \* code -> how many attestation chains were created for it
    funded          \* the games whose funding transaction was sent

registry == <<created, game, states, by_time>>
locks == <<db_lock, state_lock>>
host_vars == <<scenario, host, host_faults, registry, locks, request, chains, funded>>

Code == 1..MaxGames + 1      \* bound: how many games are created
NoHandler == 0
Handler == DOMAIN scenario.requests
arg(r) == scenario.requests[r]

\* The requests: duration_minutes, the join code with a player's envelope, and
\* the join code with a passcode, which is the game's own or not.
Create(minutes) == [op |-> "create", minutes |-> minutes]
Add(code, key, kind) == [op |-> "add", code |-> code, envelope |-> [key |-> key, kind |-> kind]]
Finish(code, passcode) == [op |-> "finish", code |-> code, passcode |-> passcode]
\* kinds of envelope: a genesis with a heartbeat, another genesis, no genesis,
\* and a good one whose signature does not verify
EnvelopeKind == {"heartbeat", "wrong_first", "not_genesis", "forged"}

Request ==
    [op : {"create"}, minutes : Nat]
    \cup [op : {"add"}, code : Nat, envelope : [key : STRING, kind : EnvelopeKind]]
    \cup [op : {"finish"}, code : Nat, passcode : BOOLEAN]

Fresh == [st |-> "AddingPlayers", envelopes |-> <<>>]

GameInitInit ==
    /\ scenario \in Scenario
    /\ host = scenario.host
    /\ host_faults = scenario.host_faults
    /\ created = 0
    /\ game = [c \in Code |-> Fresh]
    /\ states = {} /\ by_time = <<>>
    /\ db_lock = NoHandler
    /\ state_lock = [c \in Code |-> NoHandler]
    /\ request = [r \in Handler |-> "new"]
    /\ chains = [c \in Code |-> 0]
    /\ funded = {}
    /\ groups = scenario.groups /\ occurrences = scenario.occurrences /\ writer = NoWriter

-----------------------------------------------------------------------------
ModuleRepo == 0     \* default_group_key
module_tag == <<"hash", "module">>

Event(t, v, w) == [t |-> t, v |-> v, w |-> w]
\* mutant: the arguments are written before the module
FirstEvents_swapped == <<
    [ev |-> Event("CreateArgs", "", ""), tag |-> <<"CreateArgs">>],
    [ev |-> Event("ModuleBytes", "", ""), tag |-> <<"InitModule">>],
    [ev |-> Event("Rebind", "", ""), tag |-> <<"FirstBind">>],
    [ev |-> Event("TransactionFinalized", "default", ""), tag |-> <<"funding_tx">>] >>
\* What finish_setup writes, in its order.
FirstEvents == <<
    [ev |-> Event("ModuleBytes", "", ""), tag |-> <<"InitModule">>],
    [ev |-> Event("CreateArgs", "", ""), tag |-> <<"CreateArgs">>],
    [ev |-> Event("Rebind", "", ""), tag |-> <<"FirstBind">>],
    [ev |-> Event("TransactionFinalized", "default", ""), tag |-> <<"funding_tx">>] >>

\* The log that a behaviour begins with, and its groups: a new one, one with the
\* module's bytes, and one in which game 1 has been started.
Modules == Occurrence(ModuleRepo, Event("ModuleRepo", "", ""), module_tag)
Started == <<Modules>> \o
    [i \in DOMAIN FirstEvents |-> Occurrence(1, FirstEvents[i].ev, FirstEvents[i].tag)]
HostLog == {<<{}, <<>>>>, <<{ModuleRepo}, <<Modules>>>>, <<{ModuleRepo, 1}, Started>>}

ASSUME GameInitAssumption ==
    /\ MaxGames \in Nat \ {0} /\ MAX_PLAYERS \in Nat \ {0} /\ MaxRequests \in Nat
    /\ \A s \in Scenario :
          /\ s.host \in {"up", "down"} /\ s.host_faults \in Nat
          /\ s.requests \in Seq(Request) /\ Len(s.requests) <= MaxRequests
          /\ <<s.groups, s.occurrences>> \in HostLog
          /\ s.host = "up" => s.occurrences # <<>>

\* The module's bytes are in the log before the first request is served.
host_starts ==
    /\ host = "down"
    /\ \/ /\ ModuleRepo \notin groups
          /\ get_or_insert_group(ModuleRepo)
          /\ UNCHANGED host
       \/ /\ ModuleRepo \in groups
          /\ insert_occurrence(ModuleRepo, Event("ModuleRepo", "", ""), module_tag)
          /\ host' = "up"
    /\ UNCHANGED <<scenario, host_faults, registry, locks, request, chains, funded>>

Answer(r) == request' = [request EXCEPT ![r] = "answered"]
Go(r, pc) == request' = [request EXCEPT ![r] = pc]
At(r, pc) == host = "up" /\ request[r] = pc

\* VecDeque::pop_front when by_time is full, then push_back.
evicts == Len(by_time) = MaxGames
create_new_game_instance(r) ==
    /\ At(r, "new") /\ arg(r).op = "create" /\ db_lock = NoHandler
    /\ Answer(r)
    /\ IF arg(r).minutes > 300 THEN UNCHANGED registry
       ELSE LET code == created + 1 IN
            /\ code \in Code           \* bound
            /\ created' = code
            /\ game' = [game EXCEPT ![code] = Fresh]
            /\ by_time' = Append(IF evicts THEN Tail(by_time) ELSE by_time, code)
            /\ states' = (states \ (IF evicts THEN {Head(by_time)} ELSE {})) \cup {code}
    /\ UNCHANGED <<scenario, host, host_faults, locks, chains, funded, evlog>>

\* The registry stays locked while the handler waits for the game.
add_player_finds(r) ==
    /\ At(r, "new") /\ arg(r).op = "add" /\ db_lock = NoHandler
    /\ IF arg(r).code \in states THEN Go(r, "found") /\ db_lock' = r
       ELSE Answer(r) /\ UNCHANGED db_lock
    /\ UNCHANGED <<scenario, host, host_faults, registry, state_lock, chains, funded, evlog>>

\* GameStartingState::add_player: anything else is refused.
Accepts(g, e) == e.kind \in {"heartbeat", "forged"} /\ g.st = "AddingPlayers"
Added(g, e) ==
    LET v == Append(g.envelopes, e) IN
    [envelopes |-> v, st |-> IF Len(v) = MAX_PLAYERS THEN "WaitingForSetup" ELSE g.st]
add_player(r) ==
    LET c == arg(r).code  e == arg(r).envelope IN
    /\ At(r, "found") /\ arg(r).op = "add" /\ state_lock[c] = NoHandler
    /\ game' = IF Accepts(game[c], e) THEN [game EXCEPT ![c] = Added(@, e)] ELSE game
    /\ Answer(r)
    /\ db_lock' = NoHandler
    /\ UNCHANGED <<scenario, host, host_faults, created, states, by_time, state_lock,
                   chains, funded, evlog>>

finish_setup_finds(r) ==
    /\ At(r, "new") /\ arg(r).op = "finish" /\ db_lock = NoHandler
    /\ IF arg(r).code \in states /\ arg(r).passcode THEN Go(r, "found") ELSE Answer(r)
    /\ UNCHANGED <<scenario, host, host_faults, registry, locks, chains, funded, evlog>>

\* mutant: a game that is set up can be set up again
MayFinalize_again(g) == TRUE
MayFinalize(g) == g.st \in {"AddingPlayers", "WaitingForSetup"}
Authentic(g) == \A i \in DOMAIN g.envelopes : g.envelopes[i].kind # "forged"
\* The game is locked until the handler answers.  A game that is set up stays so,
\* whether the players' envelopes verify or not.
finalize_setup(r) ==
    LET c == arg(r).code IN
    /\ At(r, "found") /\ arg(r).op = "finish" /\ state_lock[c] = NoHandler
    /\ game' = IF MayFinalize(game[c]) THEN [game EXCEPT ![c].st = "Setup"] ELSE game
    /\ IF MayFinalize(game[c]) /\ Authentic(game[c])
       THEN Go(r, "chain") /\ state_lock' = [state_lock EXCEPT ![c] = r]
       ELSE Answer(r) /\ UNCHANGED state_lock
    /\ UNCHANGED <<scenario, host, host_faults, created, states, by_time, db_lock,
                   chains, funded, evlog>>

\* Where a finished game's handler writes each of FirstEvents, and what follows.
LogStep == <<"log1", "log2", "log3", "log4", "send">>

Unlock(r) == state_lock' = [state_lock EXCEPT ![arg(r).code] = NoHandler]
\* The database, the contract's module or the wallet fails; the answer is an
\* error, and the game cannot be finished any more: what it has logged stays.
finish_setup_fails(r) ==
    /\ request[r] \in {"chain", "contract"} \cup {LogStep[i] : i \in DOMAIN FirstEvents}
    /\ host = "up" /\ host_faults > 0
    /\ host_faults' = host_faults - 1
    /\ Answer(r) /\ Unlock(r)
    /\ UNCHANGED <<scenario, host, registry, db_lock, chains, funded, evlog>>

\* The players become users and the chain's genesis commits to the setup.
create_new_attestation_chain(r) ==
    /\ At(r, "chain")
    /\ chains' = [chains EXCEPT ![arg(r).code] = @ + 1]
    /\ Go(r, "contract")
    /\ UNCHANGED <<scenario, host, host_faults, registry, locks, funded, evlog>>

\* The contract compiles, its funding transaction is made and signed, and its
\* group is created.
make_contract(r) ==
    /\ At(r, "contract")
    /\ get_or_insert_group(arg(r).code)
    /\ Go(r, "log1")
    /\ UNCHANGED <<scenario, host, host_faults, registry, locks, chains, funded>>

\* Each event is a transaction of its own.  An event that is already there ends
\* the request, but for the module's and the funding transaction.
log_event(r, i) ==
    LET c == arg(r).code  first == FirstEvents[i] IN
    /\ At(r, LogStep[i])
    /\ insert_occurrence(c, first.ev, first.tag)
    /\ IF AlreadyExists(c, first.tag) /\ i \in {2, 3} THEN Answer(r) /\ Unlock(r)
       ELSE Go(r, LogStep[i + 1]) /\ UNCHANGED state_lock
    /\ UNCHANGED <<scenario, host, host_faults, registry, db_lock, chains, funded>>

\* mutant: the game leaves the registry when it is funded
send_raw_transaction_unlists(r) ==
    /\ At(r, "send") /\ db_lock = NoHandler
    /\ states' = states \ {arg(r).code} /\ by_time' = <<>>
    /\ funded' = funded \cup {arg(r).code}
    /\ Answer(r) /\ Unlock(r)
    /\ UNCHANGED <<scenario, host, host_faults, created, game, db_lock, chains, evlog>>
send_raw_transaction(r) ==
    /\ At(r, "send")
    /\ funded' = funded \cup {arg(r).code}
    /\ Answer(r) /\ Unlock(r)
    /\ UNCHANGED <<scenario, host, host_faults, registry, db_lock, chains, evlog>>

\* What was not answered is lost; the registry and its locks are memory.
host_crashes ==
    /\ host = "up" /\ host_faults > 0
    /\ host' = "down" /\ host_faults' = host_faults - 1
    /\ request' = [r \in Handler |-> IF request[r] = "new" THEN "new" ELSE "answered"]
    /\ states' = {} /\ by_time' = <<>>
    /\ db_lock' = NoHandler
    /\ state_lock' = [c \in Code |-> NoHandler]
    /\ UNCHANGED <<scenario, created, game, chains, funded, evlog>>

Handles(r) ==
    \/ create_new_game_instance(r)
    \/ add_player_finds(r) \/ add_player(r)
    \/ finish_setup_finds(r) \/ finalize_setup(r)
    \/ create_new_attestation_chain(r) \/ make_contract(r)
    \/ \E i \in DOMAIN FirstEvents : log_event(r, i)
    \/ send_raw_transaction(r)
GameInitNext ==
    \/ host_starts \/ host_crashes
    \/ \E r \in Handler : Handles(r) \/ finish_setup_fails(r)
GameInitFairness ==
    /\ WF_<<host_vars, evlog>>(host_starts)
    /\ \A r \in 1..MaxRequests : WF_<<host_vars, evlog>>(r \in Handler /\ Handles(r))
=============================================================================
