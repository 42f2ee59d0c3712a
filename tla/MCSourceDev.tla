---------------------------- MODULE MCSourceDev ----------------------------
(* SourceDev for TLC: the sockets are interchangeable. *)
EXTENDS SourceDev, TLC

SocketSymmetry == Permutations(Sockets)

\* Where no property asks what the HAL was told, two states that differ in nothing
\* but the history of it are one: no step reads told, crossed or missed.
StreamsView == <<queue, state, binding, opening, ctlInit, control, openSess, recorded,
                 phase, channels, procs, dataSess, dataUp, dataCb, dataAlive,
                 dataMissed, streams, producers, enabled, crashed>>
=============================================================================
