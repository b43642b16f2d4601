-------------------------------- MODULE MCNode -------------------------------
(***************************************************************************)
(* The two parts of a node that its shutdown waits for, in one run: the    *)
(* uploads into the receive directory, and the goroutines around the peer  *)
(* list, here with one peer that is seen and falls silent.  A behaviour is *)
(* one of the part it has picked; the other stays in its initial state.    *)
(***************************************************************************)
EXTENDS MCStorage

CONSTANTS
  Id, NoId, Name, Folded, Fold, IP, Nobody, OfflineAfter,   \* Registry
  Handler, Discovery, Ticker, MaxTime,                      \* PeerList
  i1, bob, a1

VARIABLES
  half,     \* the part that runs
  clock, reg, file, at, since, dirty, saver, hand, reported, supervisor,
  quiet, copy, failed, late

peerVars == <<clock, reg, file, at, since, dirty, saver, hand, reported,
              supervisor, quiet, copy, failed, late>>
nodeVars == <<half, vars, peerVars>>

SameFold == [n \in Name |-> n]
Announces == {[id |-> i1, name |-> bob, ip |-> a1, port |-> 1]}

Peers == INSTANCE PeerList WITH node <- supervisor, Sightings <- Announces

NodeInit == half \in {"uploads", "peers"} /\ Init /\ Peers!Init

Uploads == half = "uploads" /\ UNCHANGED <<half, peerVars>>
PeerLists == half = "peers" /\ UNCHANGED <<half, vars>>

NodeNext ==
  \/ Uploads /\ Next /\ OneMishap'
  \/ PeerLists /\ Peers!Next

\* The fairness of each part, for its steps in a behaviour of that part.
NodeFairness ==
  /\ \A u \in Upload : WF_nodeVars(Uploads /\ GoesOn(u))
  /\ WF_nodeVars(Uploads /\ WaitUploads) /\ WF_nodeVars(Uploads /\ WaitIdle)
  /\ \A t \in Peers!Thread : WF_nodeVars(PeerLists /\ Peers!Continue(t))
  /\ \A t \in Peers!Background :
       SF_nodeVars(PeerLists /\ supervisor = "stopping" /\ Peers!End(t))
  /\ WF_nodeVars(PeerLists /\ Peers!Call(Ticker))
  /\ WF_nodeVars(PeerLists /\ Peers!Tick)
  /\ WF_nodeVars(PeerLists /\ Peers!SaverStep)
  /\ SF_nodeVars(PeerLists /\ Peers!SaverEnds)
  /\ WF_nodeVars(PeerLists /\ Peers!Supervise)

NodeSpec == NodeInit /\ [][NodeNext]_nodeVars /\ NodeFairness

\* What is being shut down, and what has been.  One of the two never runs.
Stopping == node = "waiting" \/ supervisor = "stopping"
Stopped == node # "waiting" /\ supervisor \in {"down", "off"}

\* A shutdown ends: the one of the server once its uploads have, without the
\* timeout of WaitUploads, and the one of the goroutines around the peer list.
\* Before that a peer that falls silent is reported offline (WaitUploads, Start,
\* periodic).
NodeEnds == (Stopping ~> Stopped) /\ Peers!SilentGoesOffline
=============================================================================
