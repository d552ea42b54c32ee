----------------------------- MODULE MCSequencer -----------------------------
(* Small instances of Sequencer: the host's genesis and one or two batches.   *)
EXTENDS Sequencer

Setup == [t |-> "GameSetup"]
NewPeer == [t |-> "NewPeer", peer |-> "p"]
Sequence(b) == [t |-> "Sequence", batch |-> b]

Failing == [consumer |-> "game", faults |-> 1,
            kind |-> [m1 |-> "move", m2 |-> "move"],
            chain |-> << Setup, NewPeer, Sequence(<<"m1", "m2">>) >>]
Demuxed == [consumer |-> "demux", faults |-> 0,
            kind |-> [m1 |-> "psbt", m2 |-> "move"],
            chain |-> << Setup, Sequence(<<"m1">>), Sequence(<<"m2">>) >>]
Custom == [consumer |-> "demux", faults |-> 0,
           kind |-> [m1 |-> "custom", m2 |-> "move", m3 |-> "invalid"],
           chain |-> << Setup, Sequence(<<"m1", "m2", "m3">>) >>]
Scenarios == {Failing, Demuxed, Custom}

Coordination == {[consumer |-> "game", faults |-> 0,
                  kind |-> [m1 |-> "psbt", m2 |-> "move"],
                  chain |-> << Setup, Sequence(<<"m1", "m2">>) >>]}
==============================================================================
