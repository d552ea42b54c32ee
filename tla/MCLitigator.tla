---------------------------- MODULE MCLitigator ----------------------------
EXTENDS Litigator

MCPoints == {[path |-> "ending", filter |-> "win", schema |-> {"win"}],
             [path |-> "ending", filter |-> "lose", schema |-> {"lose"}],
             [path |-> "any", filter |-> "*", schema |-> {"q", "p", "m"}]}

Batch(moves, psbts) == [move |-> moves, psbt |-> psbts]

Idling == [host |-> "up", host_faults |-> 0, requests |-> <<>>,
           groups |-> {ModuleRepo, 1}, occurrences |-> Started,
           lives |-> 0, genesis |-> TRUE, compiles |-> TRUE, batches |-> <<>>, equivocators |-> {}, keys |-> {},
           ticks |-> 0, faults |-> 0, verified |-> {}]
Unborn == [Idling EXCEPT !.groups = {ModuleRepo}, !.occurrences = <<Modules>>]

\* Two games, the second of which takes the only place; two finish the first.
Lobby == [Unborn EXCEPT !.host_faults = 1, !.requests =
    <<Create(10), Add(1, "p", "heartbeat"), Add(1, "q", "heartbeat"),
      Finish(1, TRUE), Finish(1, TRUE), Create(10)>>]
Refusals == [Unborn EXCEPT !.host = "down", !.groups = {}, !.occurrences = <<>>, !.requests =
    <<Create(10), Add(1, "p", "forged"), Add(1, "q", "not_genesis"), Create(301),
      Finish(1, FALSE), Finish(1, TRUE)>>]

\* The litigator meets a game that is being started.
Starting == [Unborn EXCEPT !.host_faults = 1, !.lives = 1, !.genesis = FALSE,
    !.equivocators = {"q"}, !.ticks = 1, !.keys = {"k1"},
    !.requests = <<Create(10), Finish(1, TRUE)>>]
\* As before, but the litigator is restarted.
Restarting == [Starting EXCEPT !.lives = 2, !.ticks = 0]
Signing == [Idling EXCEPT !.lives = 2, !.ticks = 2, !.faults = 1, !.keys = {"k1", "k2"}]
Learning == [Idling EXCEPT !.lives = 2, !.ticks = 2, !.faults = 1, !.keys = {"k1"},
    !.equivocators = {"q"}]
Ending == [Idling EXCEPT !.lives = 2, !.ticks = 1, !.keys = {"k1"},
    !.batches = <<Batch(<<Move(""), Move("win")>>, <<>>), Batch(<<Move("lose")>>, <<>>)>>]
Finalizing == [Idling EXCEPT !.lives = 3, !.verified = {"tx"}, !.faults = 1,
    !.batches = <<Batch(<<>>, <<Psbt("c", "tx")>>),
                  Batch(<<>>, <<Psbt("c", "other"), Psbt("d", "tx")>>),
                  Batch(<<>>, <<Psbt("e", "other")>>)>>]
Moving == [Idling EXCEPT !.lives = 2, !.equivocators = {"m"}, !.ticks = 1]
Rejecting == [Idling EXCEPT !.lives = 2, !.equivocators = {"q", "p"}, !.ticks = 1, !.keys = {"k1"}]
\* The module refuses the arguments that the host compiled with.
Refusing == [Idling EXCEPT !.lives = 2, !.compiles = FALSE, !.ticks = 1]

Scenarios == {Lobby, Refusals, Starting, Restarting, Signing, Learning, Ending, Finalizing, Moving, Rejecting,
              Refusing}
=============================================================================
