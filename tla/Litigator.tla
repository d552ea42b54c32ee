------------------------------ MODULE Litigator ------------------------------
(***************************************************************************)
(* sapio-litigator/src: for each contract in the event log it runs an        *)
(* instance, whose tasks turn what they see of the game and of time into     *)
(* events of the log (extractors), read the log in order (event_log_processor)*)
(* and act on each event (event_loop): compile the contract, recompile it    *)
(* when something new is known, sign and post its transactions.  An instance *)
(* keeps no state of its own: it is rebuilt from the log.                    *)
(*                                                                           *)
(* The module composes the host that starts games (GameInit), the shared     *)
(* event log, and the instance of game 1.  The instances share nothing else. *)
(* Either process may crash, and the litigator is started again.             *)
(*                                                                           *)
(* The contract's module is external: a contract is the set of effects it is *)
(* compiled with.                                                            *)
(***************************************************************************)
EXTENDS GameInit

CONSTANTS
    Points,         \* the contract's continuation points
    Rejected,       \* observations that the module refuses,
    Mutating,       \* and that make it compile to another address
    MaxOverrun      \* bound: events counted after the reader has ended

VARIABLES
    lives,          \* how often the litigator will still be started
    task,           \* the instance's entry in running_instances
    reader,         \* event_log_processor
    channel,        \* from the reader to the event loop, capacity 1
    loop,           \* where the event loop is, and whether a fault ended it
    state,          \* LitigatedContractInstanceState
    extractor,      \* the local variables of the extractors
    world,          \* what the message database holds of the game
    budget,         \* periodic events and faults still to come
    torn            \* history: posts whose occurrence was not committed

lit_vars == <<lives, task, reader, channel, loop, state, extractor, world, budget, torn>>
vars == <<host_vars, evlog, lit_vars>>

key == 1        \* the contract of game 1
Batches == scenario.batches     \* what the host sequences, in order, by kind
Row(i) == occurrences[i].ev

\* A transaction and a key.  External: a contract's transactions are those of its
\* observations.
Pair == ({"base"} \cup UNION {api.schema : api \in Points})
            \X UNION {s.keys : s \in Scenario}

\* A message of a batch: a move and whether the game answers it with its end, or
\* a participant's part of a transaction.
Move(result) == [kind |-> "move", result |-> result, channel |-> "", tx |-> ""]
Psbt(ch, tx) == [kind |-> "psbt", result |-> "", channel |-> ch, tx |-> tx]
Kind == {"move", "psbt"}
Message == [kind : Kind, result : {"", "win", "lose"}, channel : STRING, tx : STRING]

ASSUME LitigatorAssumption ==
    /\ MaxOverrun \in Nat
    /\ Points \subseteq [path : STRING, filter : STRING, schema : SUBSET STRING]
    /\ \A s \in Scenario :
          /\ s.lives \in Nat /\ s.genesis \in BOOLEAN /\ s.compiles \in BOOLEAN
          /\ s.batches \in Seq([Kind -> Seq(Message)])
          /\ s.equivocators \subseteq STRING \ {"win", "lose"} /\ s.keys \subseteq STRING
          /\ s.ticks \in Nat /\ s.faults \in Nat /\ s.verified \subseteq STRING

NotLoaded == [module |-> FALSE, compiled |-> FALSE, effects |-> {}, bound |-> FALSE]
Idle(pc) == [pc |-> pc, last |-> 0, rows |-> <<>>, notified |-> FALSE]
NoTasks == [time |-> FALSE, dlog |-> FALSE, known |-> {}, game |-> "off", moves |-> 0,
            snapshot |-> "none", psbts |-> FALSE, received |-> 0, psbt_counter |-> 0]
Loop(pc) == [pc |-> pc, counter |-> 0, queue |-> {}, fault |-> FALSE]

\* The instance's memory, in a process that has just started.
Forgotten ==
    /\ task = "off" /\ reader = Idle("off") /\ channel = <<>> /\ loop = Loop("off")
    /\ state = NotLoaded /\ extractor = NoTasks

Init ==
    /\ GameInitInit
    /\ lives = scenario.lives
    /\ Forgotten
    /\ world = [genesis |-> scenario.genesis, batches |-> 0, have |-> {},
                equivocated |-> {}, posted |-> [p \in Pair |-> 0]]
    /\ budget = [ticks |-> scenario.ticks, faults |-> scenario.faults]
    /\ torn = [p \in Pair |-> 0]

litigator_starts ==
    /\ task = "off" /\ lives > 0
    /\ task' = "absent" /\ lives' = lives - 1
    /\ UNCHANGED <<host_vars, evlog, reader, channel, loop, state, extractor, world,
                   budget, torn>>

-----------------------------------------------------------------------------
(* main.rs *)

\* The scan of "run": a group not in running_instances gets an instance; of an
\* instance that ended only the task is removed.
scan_for_new_contracts ==
    /\ \/ task = "absent" /\ key \in groups /\ task' = "spawned"
       \/ task = "finished" /\ task' = "taken"
    /\ UNCHANGED <<host_vars, evlog, lives, reader, channel, loop, state, extractor,
                   world, budget, torn>>

\* The reader and the clock are running when the game's genesis is looked up.
\* Without it the instance ends; its two tasks are only detached.
litigate_contract ==
    /\ task = "spawned"
    /\ reader' = Idle("sleep")
    /\ IF world.genesis
       THEN /\ task' = "running"
            /\ loop' = Loop("recv")
            /\ extractor' = [NoTasks EXCEPT !.time = TRUE, !.dlog = TRUE,
                                            !.game = "play", !.psbts = TRUE]
       ELSE /\ task' = "finished"
            /\ loop' = Loop("dropped")
            /\ extractor' = [NoTasks EXCEPT !.time = TRUE]
    /\ UNCHANGED <<host_vars, evlog, lives, channel, state, world, budget, torn>>

\* The join awaits the event loop first, and that ends only with an error.
instance_ends ==
    /\ task = "running" /\ loop.pc = "error"
    /\ task' = "finished"
    /\ UNCHANGED <<host_vars, evlog, lives, reader, channel, loop, state, extractor,
                   world, budget, torn>>

-----------------------------------------------------------------------------
(* universe/linearized.rs *)

\* mutant: the reader waits for a notification only
WakesByTimer_never == FALSE
\* The timer goes off sooner or later, with and without a notification.
WakesByTimer == TRUE

event_log_processor_wakes ==
    /\ reader.pc = "sleep" /\ writer = NoWriter
    /\ LET rows == occurrences_for_group_after_id(key, reader.last)
           woken(permit) ==
              reader' = [reader EXCEPT !.rows = rows, !.notified = permit,
                                       !.pc = IF rows = <<>> THEN "sleep" ELSE "send"]
       IN \/ reader.notified /\ woken(FALSE)
          \/ WakesByTimer /\ woken(reader.notified)
    /\ UNCHANGED <<host_vars, evlog, lives, task, channel, loop, state, extractor, world,
                   budget, torn>>

\* The query fails.  The reader ends and with it the only sender.
event_log_processor_fails ==
    /\ reader.pc = "sleep" /\ budget.faults > 0
    /\ reader' = [reader EXCEPT !.pc = "ended"]
    /\ budget' = [budget EXCEPT !.faults = @ - 1]
    /\ UNCHANGED <<host_vars, evlog, lives, task, channel, loop, state, extractor, world, torn>>

LoopGone == loop.pc \in {"error", "dropped"}

\* mutant: the next query starts after the first row of this one
LastSent_first(sent) == IF reader.last = 0 THEN sent ELSE reader.last
LastSent(sent) == sent
event_log_processor_sends ==
    /\ reader.pc = "send"
    /\ IF LoopGone
       THEN reader' = [reader EXCEPT !.pc = "ended", !.rows = <<>>] /\ UNCHANGED channel
       ELSE LET sent == Head(reader.rows)  rest == Tail(reader.rows) IN
            /\ channel = <<>>
            /\ channel' = <<Row(sent)>>
            /\ reader' = [reader EXCEPT !.last = LastSent(sent), !.rows = rest,
                                        !.pc = IF rest = <<>> THEN "sleep" ELSE "send"]
    /\ UNCHANGED <<host_vars, evlog, lives, task, loop, state, extractor, world, budget, torn>>

-----------------------------------------------------------------------------
(* litigator_event_log.rs *)

Received(t) == loop.pc = "recv" /\ channel # <<>> /\ channel[1].t = t
ev == channel[1]
Unread == UNCHANGED <<host_vars, evlog, lives, task, reader, extractor, world, budget, torn>>
Counted == channel' = <<>> /\ loop' = [loop EXCEPT !.counter = @ + 1] /\ Unread
Fails == channel' = <<>> /\ loop' = [loop EXCEPT !.pc = "error"] /\ UNCHANGED state /\ Unread

\* Both are in the log against duplicates only.
recv_record ==
    /\ Received("EmittedPSBTVia") \/ Received("TransactionFinalized")
    /\ Counted /\ UNCHANGED state

\* A database, a thread or the loading of the module fails inside a handler.
Breaks ==
    /\ budget.faults > 0 /\ budget' = [budget EXCEPT !.faults = @ - 1]
    /\ channel' = <<>> /\ loop' = [loop EXCEPT !.pc = "error", !.fault = TRUE]
    /\ UNCHANGED <<host_vars, evlog, lives, task, reader, state, extractor, world, torn>>

\* recv() of a channel without sender returns None at once, again and again, and
\* None is counted as an event.
recv_none ==
    /\ loop.pc \in {"recv", "spin"} /\ channel = <<>> /\ reader.pc = "ended"
    /\ loop.counter < Len(occurrences) + MaxOverrun
    /\ loop' = [loop EXCEPT !.pc = "spin", !.counter = @ + 1]
    /\ UNCHANGED <<channel, state>> /\ Unread

\* The closure keeps the bytes that the tag names.
handle_module_bytes ==
    /\ Received("ModuleBytes")
    /\ IF AlreadyExists(ModuleRepo, module_tag)
       THEN Counted /\ state' = [state EXCEPT !.module = TRUE] ELSE Fails
module_bytes_fail == Received("ModuleBytes") /\ Breaks

\* External: whether the module compiles the contract from these arguments, as it
\* did for the host.
Compiles == scenario.compiles
handle_create_args ==
    /\ Received("CreateArgs")
    /\ IF state.module /\ Compiles
       THEN Counted /\ state' = [state EXCEPT !.compiled = TRUE, !.effects = {}] ELSE Fails
create_args_fail == Received("CreateArgs") /\ state.module /\ Breaks

handle_rebind == Received("Rebind") /\ Counted /\ state' = [state EXCEPT !.bound = TRUE]

\* event_key_filter_hit and validate_api, the schema as the set of what it admits.
Hit(api, e) == api.filter \in {e.w, "*"} /\ e.v \in api.schema
\* External: what the module does with new effects.
Accepted(e) == e.v \notin Rejected
SameAddress(e) == e.v \notin Mutating

Hits == {api \in Points : Hit(api, ev)}
handle_new_information ==
    LET hits == Hits
        save == {<<api.path, loop.counter, ev.v>> : api \in hits} IN
    /\ Received("NewRecompileTriggeringObservation")
    /\ CASE ~state.compiled -> Fails
         [] state.compiled /\ hits # {} /\ Accepted(ev) /\ ~SameAddress(ev) -> Fails
         [] state.compiled /\ hits # {} /\ Accepted(ev) /\ SameAddress(ev) ->
              Counted /\ state' = [state EXCEPT !.effects = @ \cup save]
         [] state.compiled /\ (hits = {} \/ ~Accepted(ev)) -> Counted /\ UNCHANGED state
new_information_fails ==
    /\ Received("NewRecompileTriggeringObservation") /\ state.compiled /\ Hits # {}
    /\ Breaks

\* External: the transactions that the contract, bound to its coin, offers.
Templates == {"base"} \cup {e[3] : e \in state.effects}
\* Each transaction, by each of our keys that it names.
ToSign == IF state.bound THEN Templates \X scenario.keys ELSE {}
handle_synthetic_periodic ==
    /\ Received("SyntheticPeriodicActions")
    /\ IF state.bound /\ ~state.compiled THEN Fails
       ELSE /\ channel' = <<>>
            /\ loop' = [loop EXCEPT !.pc = "emit", !.queue = ToSign]
            /\ UNCHANGED state /\ Unread
\* The keys of the bound contract's transactions cannot be read.
synthetic_periodic_fails ==
    /\ Received("SyntheticPeriodicActions") /\ state.bound /\ state.compiled
    /\ Breaks

SignedTag(p) == <<"signed_psbt", p[1], p[2]>>
Emitted(p) == AlreadyExists(key, SignedTag(p))
Emitting(p) == /\ loop.pc = "emit" /\ loop.queue # {}
               /\ p = CHOOSE q \in loop.queue : TRUE
Pop(p) == loop' = [loop EXCEPT !.queue = @ \ {p}]

\* process_psbt_fail_ok: a transaction on the event log is open while the message
\* is posted to the other database.
emit_finds(p) ==
    /\ Emitting(p) /\ writer = NoWriter /\ Emitted(p)
    /\ Pop(p)
    /\ UNCHANGED <<host_vars, evlog, lives, task, reader, channel, state, extractor,
                   world, budget, torn>>
emit_posts(p) ==
    /\ Emitting(p) /\ writer = NoWriter /\ ~Emitted(p)
    /\ writer' = p
    /\ world' = [world EXCEPT !.posted[p] = @ + 1]
    /\ UNCHANGED <<host_vars, groups, occurrences, lives, task, reader, channel, loop,
                   state, extractor, budget, torn>>

\* mutant: the occurrence is committed whether the message was posted or not
AfterFailure_commit(p) ==
    occurrences' = Append(occurrences, Occurrence(key, Event("EmittedPSBTVia", p[1], p[2]), SignedTag(p)))
AfterFailure(p) == UNCHANGED occurrences
\* retry_insert_authenticated_envelope_atomic gives up: the transaction is dropped.
emit_fails(p) ==
    /\ Emitting(p) /\ writer = NoWriter /\ ~Emitted(p) /\ budget.faults > 0
    /\ budget' = [budget EXCEPT !.faults = @ - 1]
    /\ Pop(p) /\ AfterFailure(p)
    /\ UNCHANGED <<host_vars, groups, writer, lives, task, reader, channel, state,
                   extractor, world, torn>>
emit_commits(p) ==
    /\ Emitting(p) /\ writer = p
    /\ writer' = NoWriter
    /\ occurrences' = Append(occurrences,
          Occurrence(key, Event("EmittedPSBTVia", p[1], p[2]), SignedTag(p)))
    /\ Pop(p)
    /\ UNCHANGED <<host_vars, groups, lives, task, reader, channel, state, extractor,
                   world, budget, torn>>
\* "we succeed at inserting the Signed PSBT but do not succeed at committing the
\* event log entry"
emit_commit_fails(p) ==
    /\ Emitting(p) /\ writer = p /\ budget.faults > 0
    /\ budget' = [budget EXCEPT !.faults = @ - 1]
    /\ writer' = NoWriter
    /\ torn' = [torn EXCEPT ![p] = @ + 1]
    /\ Pop(p)
    /\ UNCHANGED <<host_vars, groups, occurrences, lives, task, reader, channel, state,
                   extractor, world>>
emit_ends ==
    /\ loop.pc = "emit" /\ loop.queue = {}
    /\ loop' = [loop EXCEPT !.pc = "recv", !.counter = @ + 1]
    /\ UNCHANGED <<channel, state>> /\ Unread

-----------------------------------------------------------------------------
(* universe/extractors *)

Extracted == UNCHANGED <<host_vars, lives, task, channel, loop, state, world, torn>>
notify_one == reader' = [reader EXCEPT !.notified = TRUE]

time_event_extractor ==
    /\ extractor.time /\ budget.ticks > 0
    /\ budget' = [budget EXCEPT !.ticks = @ - 1]
    /\ insert_occurrence(key, Event("SyntheticPeriodicActions", "", ""), NoTag)
    /\ notify_one
    /\ UNCHANGED extractor /\ Extracted

Observation(v, filter) == Event("NewRecompileTriggeringObservation", v, filter)

\* A key that used a nonce twice, and was not seen to before in this life.  The
\* reader is not notified.
dlog_extractor(k) ==
    /\ extractor.dlog /\ k \in world.equivocated \ extractor.known
    /\ extractor' = [extractor EXCEPT !.known = @ \cup {k}]
    /\ insert_occurrence(key, Observation(k, "dlog"), <<"dlog", k>>)
    /\ UNCHANGED <<reader, budget>> /\ Extracted

\* What the sequencer has delivered: the messages of the first batches, up to the
\* first batch of which one is missing.
Content(i) == ToSet(Batches[i]["move"]) \cup ToSet(Batches[i]["psbt"])
Complete(n) == \A i \in 1..n : Content(i) \subseteq world.have
Delivered == Max({n \in 0..world.batches : Complete(n)})
FirstOf(kind, n) ==
    LET first[i \in 0..Len(Batches)] ==
            IF i = 0 THEN <<>> ELSE first[i - 1] \o Batches[i][kind]
    IN first[n]
Of(kind) == FirstOf(kind, Delivered)

\* start_game: the moves are played up to the first that finds the game over.
start_game ==
    /\ extractor.game = "play" /\ extractor.moves < Len(Of("move"))
    /\ LET n == extractor.moves + 1
           over == Of("move")[n].result # "" IN
       extractor' = [extractor EXCEPT !.moves = n, !.game = IF over THEN "ended" ELSE "play",
                                      !.snapshot = IF over THEN "pending" ELSE @]
    /\ UNCHANGED <<evlog, reader, budget>> /\ Extracted

\* mutant: the snapshot is tagged by what it holds
SnapshotTag_by_size == <<"game_move", world.batches>>
SnapshotTag == <<"game_move", extractor.moves>>
\* The whole chain as it is stored now, not only the moves played, and every
\* message it names.  If one is missing nothing is observed, and not tried again.
make_snapshot ==
    /\ extractor.snapshot = "pending"
    /\ IF Complete(world.batches)
       THEN LET r == Of("move")[extractor.moves].result IN
            /\ insert_occurrence(key, Observation(r, r), SnapshotTag)
            /\ IF AlreadyExists(key, SnapshotTag) THEN UNCHANGED reader ELSE notify_one
            /\ extractor' = [extractor EXCEPT !.snapshot = "made"]
       ELSE /\ extractor' = [extractor EXCEPT !.snapshot = "lost"]
            /\ UNCHANGED <<evlog, reader>>
    /\ UNCHANGED budget /\ Extracted

\* The transaction of a channel is that of its first part; parts of another one
\* do not combine with it.  External: whether it verifies, no coin being known.
Merged(n) ==
    LET parts == Of("psbt")
        same(i) == parts[i].channel = parts[n].channel
    IN parts[CHOOSE i \in 1..n : same(i) /\ \A j \in 1..i - 1 : ~same(j)].tx
Verifies(tx) == tx \in scenario.verified

\* mutant: a transaction that is in the log already is not counted
CountsPsbt_new(tag) == ~AlreadyExists(key, tag)
CountsPsbt(tag) == TRUE
handle_psbts ==
    /\ extractor.psbts /\ extractor.received < Len(Of("psbt"))
    /\ LET n == extractor.received + 1
           counter == extractor.psbt_counter + 1
           tag == <<"psbts", counter>> IN
       IF Verifies(Merged(n))
       THEN /\ insert_occurrence(key, Event("TransactionFinalized", Of("psbt")[n].channel, Merged(n)), tag)
            /\ extractor' = [extractor EXCEPT !.received = n,
                  !.psbt_counter = IF CountsPsbt(tag) THEN counter ELSE @]
            /\ IF AlreadyExists(key, tag) THEN UNCHANGED reader ELSE notify_one
       ELSE /\ extractor' = [extractor EXCEPT !.received = n]
            /\ UNCHANGED <<evlog, reader>>
    /\ UNCHANGED budget /\ Extracted

-----------------------------------------------------------------------------
(* What reaches the message database, and the end of the process *)

World(new) ==
    /\ world' = new
    /\ UNCHANGED <<host_vars, evlog, lives, task, reader, channel, loop, state, extractor,
                   budget, torn>>
attestations_arrive ==
    \/ ~world.genesis /\ chains[key] > 0 /\ World([world EXCEPT !.genesis = TRUE])
    \/ /\ world.genesis /\ world.batches < Len(Batches)
       /\ World([world EXCEPT !.batches = @ + 1])
    \/ \E i \in DOMAIN Batches : \E m \in Content(i) \ world.have :
          World([world EXCEPT !.have = @ \cup {m}])
    \/ \E k \in scenario.equivocators \ world.equivocated :
          World([world EXCEPT !.equivocated = @ \cup {k}])

litigator_crashes ==
    /\ task # "off" /\ lives > 0
    /\ task' = "off" /\ reader' = Idle("off") /\ channel' = <<>> /\ loop' = Loop("off")
    /\ state' = NotLoaded /\ extractor' = NoTasks
    /\ writer' = NoWriter
    /\ torn' = IF writer = NoWriter THEN torn ELSE [torn EXCEPT ![writer] = @ + 1]
    /\ UNCHANGED <<host_vars, groups, occurrences, lives, world, budget>>

Emits == \/ \E p \in Pair : emit_finds(p) \/ emit_posts(p) \/ emit_commits(p)
         \/ emit_ends
Handle == \/ recv_record \/ recv_none \/ handle_module_bytes \/ handle_create_args
          \/ handle_rebind \/ handle_new_information \/ handle_synthetic_periodic
HandlerFails == \/ module_bytes_fail \/ create_args_fail \/ new_information_fails
                \/ synthetic_periodic_fails
Extract == \/ time_event_extractor \/ start_game \/ make_snapshot \/ handle_psbts
           \/ \E k \in scenario.equivocators : dlog_extractor(k)

LitigatorNext ==
    \/ litigator_starts \/ litigator_crashes
    \/ scan_for_new_contracts \/ litigate_contract \/ instance_ends
    \/ event_log_processor_wakes \/ event_log_processor_fails \/ event_log_processor_sends
    \/ Handle \/ HandlerFails
    \/ Emits \/ \E p \in Pair : emit_fails(p) \/ emit_commit_fails(p)
    \/ Extract \/ attestations_arrive

Next == (GameInitNext /\ UNCHANGED lit_vars) \/ LitigatorNext

\* The runtime polls every task and the scan repeats; requests are answered.  The
\* crashes, what arrives and the periodic events are not bound to happen.
FairSpec ==
    /\ Init /\ [][Next]_vars
    /\ GameInitFairness
    /\ WF_vars(scan_for_new_contracts) /\ WF_vars(litigate_contract)
    /\ WF_vars(event_log_processor_wakes) /\ WF_vars(event_log_processor_sends)
    /\ WF_vars(Handle) /\ WF_vars(Emits)

-----------------------------------------------------------------------------
TypeOK ==
    /\ EventLogTypeOK
    /\ states = ToSet(by_time) /\ Len(by_time) <= MaxGames
    /\ \A c \in Code : /\ game[c].st \in {"AddingPlayers", "WaitingForSetup", "Setup"}
                       /\ Len(game[c].envelopes) <= MAX_PLAYERS
                       /\ state_lock[c] \in Handler \cup {NoHandler}
    /\ task \in {"off", "absent", "spawned", "running", "finished", "taken"}
    /\ reader.pc \in {"off", "sleep", "send", "ended"}
    /\ Len(channel) <= 1
    /\ loop.pc \in {"off", "recv", "emit", "spin", "error", "dropped"}
    /\ writer \in Pair \cup {NoWriter} /\ (writer # NoWriter => loop.pc = "emit")
    /\ loop.queue \subseteq Pair

\* However requests for it interleave, a game gets one chain: finish_setup holds the
\* game's lock while it works, and a game that is set up is refused.
OneChainPerGame == \A c \in Code : chains[c] <= 1

\* The end of the game becomes known to the contract once, though the extractor
\* finds it again in each life, with other messages around it.
EndObservedOnce ==
    Cardinality({i \in DOMAIN occurrences : Row(i).t = "NewRecompileTriggeringObservation"
                                            /\ Row(i).v \in {"win", "lose"}}) <= 1

\* What the log and the registry have of a game has happened once: the tags and
\* the locks of the host and of the extractors leave no second copy.
HappensOnce == TypeOK /\ OneChainPerGame /\ EndObservedOnce

-----------------------------------------------------------------------------
(* The instance implements the replay of its log. *)

Index(rows, t) == {i \in DOMAIN rows : rows[i].ev.t = t}
Meaning(rows) ==
    LET args == Index(rows, "CreateArgs")
        news == {i \in Index(rows, "NewRecompileTriggeringObservation") : Accepted(rows[i].ev)}
    IN [module |-> Index(rows, "ModuleBytes") # {},
        compiled |-> args # {},
        effects |-> UNION {{<<api.path, i - 1, rows[i].ev.v>> :
                              api \in {a \in Points : Hit(a, rows[i].ev)}} : i \in news},
        bound |-> Index(rows, "Rebind") # {}]

Replay == INSTANCE EventReplay WITH
    log <- occurrences_for_group(key), pos <- loop.counter, st <- state,
    over <- loop.pc = "spin"

\* Through the reader's cursor, its notifications, the channel and restarts, the
\* event loop handles the log in order, each occurrence once, and its state is what
\* the log means: event_log_processor and event_loop implement EventReplay.  When
\* the reader has ended the loop counts on, past the log, but its state stays.
ReplaysLog == Replay!Spec

\* The two databases agree on what was posted: an occurrence has its post, and a
\* transaction is posted a second time only if, between the two commits of
\* process_psbt_fail_ok, the process died or the second commit failed.
EmissionsAgree == \A p \in Pair :
    world.posted[p] = torn[p] + (IF Emitted(p) THEN 1 ELSE 0) + (IF writer = p THEN 1 ELSE 0)

\* Every verified transaction that handle_psbts was given in this life is in the
\* log, under its number, although the count starts again with the process.
VerifiedUpTo(n) == {i \in 1..n : Verifies(Merged(i))}
FinalizedRecorded ==
    \A n \in VerifiedUpTo(extractor.received) : \E i \in DOMAIN occurrences :
        /\ occurrences[i].group_id = key
        /\ occurrences[i].unique_tag = <<"psbts", Cardinality(VerifiedUpTo(n))>>
        /\ Row(i).t = "TransactionFinalized" /\ Row(i).w = Merged(n)

\* Crashes and failures leave nothing else half done: what was posted is recorded
\* or was torn, and what was finalized is in the log.
CrashLosesNothing == EmissionsAgree /\ FinalizedRecorded

\* When nothing fails under it, the event loop ends with an error only at arguments
\* that the module refuses, at an observation that came before the contract's
\* arguments, or at one that moves the contract's address.  Whatever the host and the
\* litigator each had written when they died, it never misses the module, its bytes,
\* or the contract to sign for.
EndsOnlyForCause ==
    loop.pc = "error" /\ ~loop.fault =>
        LET rows == occurrences_for_group(key)  at == loop.counter + 1 IN
        \/ rows[at].ev.t = "CreateArgs" /\ ~Compiles
        \/ /\ rows[at].ev.t = "NewRecompileTriggeringObservation"
           /\ \/ ~\E i \in 1..at - 1 : rows[i].ev.t = "CreateArgs"
              \/ ~SameAddress(rows[at].ev)

\* Nobody waits for ever.  An occurrence is handled whether the reader is notified of
\* it or not, while the instance runs and its reader's query does not fail; and every
\* request to the host is answered, or ends with the process: no two handlers wait for
\* one another's lock, though add_player holds the registry's while it waits.
Alive == loop.pc \in {"recv", "emit"} /\ reader.pc # "ended"
EventuallyHandled ==
    /\ []<>(Alive => loop.counter = Len(occurrences_for_group(key)))
    /\ <>(\A r \in Handler : request[r] = "answered")
=============================================================================
