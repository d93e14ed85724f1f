------------------------ MODULE ValidatorSetSchedule -------------------------
(***************************************************************************)
(* node/src/validator-set-schedule.ts, as the chain engine uses it: which  *)
(* proposers this node accepts at a height, while the network rotates its  *)
(* set of validators and the node follows some blocks behind.              *)
(***************************************************************************)
EXTENDS Naturals, Sequences, SequencesExt, FiniteSets

CONSTANTS Sets,         \* the sets of validators that occur
          Static,       \* set of the node's configuration
          Steady,       \* between rotations and restarts the node catches up
          MaxHeight, MaxRestarts

VARIABLES truth,     \* set that was in force for each block of the network
          current,   \* set of the network now
          entries,   \* eras that this node has recorded
          tip,       \* height of this node
          restarts

vars == <<truth, current, entries, tip, restarts>>

Era(from, members) == [from |-> from, members |-> members]
EraBefore(a, b) == a.from < b.from

Record(list, from, members) ==
  IF members = {} \/ (list # <<>> /\ Last(list).members = members) THEN list
  ELSE SortSeq(Append(SelectSeq(list, LAMBDA e : e.from # from), Era(from, members)), EraBefore)

Covering(height) == Cardinality({i \in DOMAIN entries : entries[i].from <= height})

Known(height) == entries # <<>> /\ height >= entries[1].from


AllowedAt(height) ==
  LET near == {Covering(height) + d : d \in {0, 1}} \cup {Covering(height) - 1} IN
  UNION {entries[i].members : i \in near \cap DOMAIN entries}

Init ==
  /\ truth = <<Static>> /\ current = Static
  /\ entries = Record(<<>>, 1, Static)
  /\ tip = 0 /\ restarts = 0

\* Nothing is left to apply that an earlier set has proposed.
CaughtUp == \A n \in tip + 1 .. Len(truth) : truth[n] = current

\* The network: another block, or another set for the blocks to come.  A set lasts
\* until this node has recorded it and is past the height it recorded it at.
Produce ==
  /\ Len(truth) < MaxHeight
  /\ truth' = Append(truth, current)
  /\ UNCHANGED <<current, entries, tip, restarts>>

Rotate(members) ==
  /\ members # current /\ (Steady => CaughtUp)
  /\ Last(entries).members = current /\ Last(entries).from <= tip
  /\ current' = members
  /\ UNCHANGED <<truth, entries, tip, restarts>>

\* updateProposerSet: the height is read later than the set, blocks may come in between.
UpdateProposerSet ==
  /\ entries' = Record(entries, tip + 1, current)
  /\ UNCHANGED <<truth, current, tip, restarts>>

Accepted(proposer, height) == Known(height) => proposer \in AllowedAt(height)

ApplyNext ==
  /\ tip < Len(truth)
  /\ \E proposer \in truth[tip + 1] : Accepted(proposer, tip + 1)
  /\ tip' = tip + 1
  /\ UNCHANGED <<truth, current, entries, restarts>>

\* load reads what record has written, then the configured set is recorded again.
Restart ==
  /\ restarts < MaxRestarts /\ (Steady => CaughtUp)
  /\ restarts' = restarts + 1
  /\ entries' = Record(entries, tip + 1, Static)
  /\ UNCHANGED <<truth, current, tip>>

Next ==
  \/ Produce \/ UpdateProposerSet \/ ApplyNext \/ Restart
  \/ \E members \in Sets : Rotate(members)

Spec == Init /\ [][Next]_vars
------------------------------------------------------------------------------
==============================================================================
