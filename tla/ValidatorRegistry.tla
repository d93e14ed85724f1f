-------------------------- MODULE ValidatorRegistry --------------------------
(***************************************************************************)
(* The contracts that hold the stake of the BFT validators and slash it:   *)
(* ValidatorRegistry.sol, EquivocationDetector.sol (its slasher) and       *)
(* InsuranceFund.sol (where a fifth of every slash goes).                  *)
(*                                                                         *)
(* A transaction is one action and a call that reverts is no step.  One    *)
(* clock stands for block time and block number.  Evidence is a member of  *)
(* Evidence, [node, phase, height, a, b] with the two signatures valid;    *)
(* the same offence may come with its hashes in either order.              *)
(***************************************************************************)
EXTENDS Integers, Sequences, Functions, FiniteSets, FiniteSetsExt, Totals

CONSTANTS
  NodeIds, Operators,
  Reporter,        \* slashRecipient
  BurnSink,        \* burnSink, or the dead address
  Detector, Admin, \* the two accounts that may be slasher
  Evidence,
  Stakes, MinStake, MaxValidators, Lockup,
  DefaultCooldown, \* DEFAULT_SLASH_COOLDOWN_BLOCKS
  NewSlashers, NewCooldowns,   \* what the owner sets
  Withdrawals,     \* amounts that governance takes out of the fund
  MaxTime, MaxSlashes   \* bounds of the model

Payees == Operators \cup {Reporter, BurnSink}
Free == "free"

VARIABLES
  now,
  validators,   \* [NodeIds -> [op, stake, leftAt, active]]; op = Free: no entry
  active,       \* _activeNodeIds
  slasher,
  insured,      \* insuranceFund is set
  pending,      \* pendingWithdrawals of the registry
  eth,          \* balance of the registry
  cooldown, lastSlash, consumed,   \* of EquivocationDetector
  fund,         \* [eth, deposited, withdrawn, pendingTotal, pending] of InsuranceFund
  slashes,      \* history: [node, ev] in the order of the slashes
  lastSeen      \* history: when a node id was last in the active set

vars == <<now, validators, active, slasher, insured, pending, eth, cooldown, lastSlash,
          consumed, fund, slashes, lastSeen>>
registry == <<validators, active, pending, eth>>
roles == <<slasher, insured, cooldown>>
detector == <<lastSlash, consumed, slashes, lastSeen>>

NoEntry == [op |-> Free, stake |-> 0, leftAt |-> 0, active |-> FALSE]

Init ==
  /\ now = 1
  /\ validators = [n \in NodeIds |-> NoEntry]
  /\ active = <<>>
  /\ slasher = Admin     \* the detector is deployed with the address of the registry
  /\ insured = FALSE
  /\ pending = [a \in Payees |-> 0]
  /\ eth = 0
  /\ cooldown = DefaultCooldown
  /\ lastSlash = [n \in NodeIds |-> 0]
  /\ consumed = {}
  /\ fund = [eth |-> 0, deposited |-> 0, withdrawn |-> 0, pendingTotal |-> 0,
             pending |-> [a \in Payees |-> 0]]
  /\ slashes = <<>>
  /\ lastSeen = [n \in NodeIds |-> 0]
------------------------------------------------------------------------------
\* Anyone registers a node id that has no entry, while there is room.
Stake(a, n, amount) ==
  /\ amount >= MinStake
  /\ validators[n].op = Free
  /\ Len(active) < MaxValidators
  /\ validators' = [validators EXCEPT ![n] =
       [op |-> a, stake |-> amount, leftAt |-> 0, active |-> TRUE]]
  /\ active' = Append(active, n)
  /\ eth' = eth + amount
  /\ lastSeen' = [lastSeen EXCEPT ![n] = now]
  /\ UNCHANGED <<now, pending, roles, lastSlash, consumed, slashes, fund>>

\* The last one takes the place of the one that leaves.
RemoveFromActive(s, n) ==
  LET i == CHOOSE i \in DOMAIN s : s[i] = n
  IN  SubSeq([s EXCEPT ![i] = s[Len(s)]], 1, Len(s) - 1)

RequestUnstake(n) ==
  /\ validators[n].active
  /\ validators' = [validators EXCEPT ![n].active = FALSE, ![n].leftAt = now]
  /\ active' = RemoveFromActive(active, n)
  /\ UNCHANGED <<now, pending, eth, roles, detector, fund>>

MayWithdraw(v) == v.op # Free /\ ~v.active /\ now >= v.leftAt + Lockup

\* The rest of the stake goes to the operator; a payment that fails reverts.
WithdrawStake(n) ==
  /\ MayWithdraw(validators[n])
  /\ eth' = eth - validators[n].stake
  /\ validators' = [validators EXCEPT ![n] = NoEntry]
  /\ UNCHANGED <<now, active, pending, roles, detector, fund>>
------------------------------------------------------------------------------
Share(amount, bps) == (amount * bps) \div 10000

\* A plausible slip: the insurance share is rounded like the others.
SplitRounded(amount) ==
  IF insured THEN [burn |-> Share(amount, 5000), report |-> Share(amount, 3000),
                   insure |-> Share(amount, 2000)]
  ELSE [burn |-> 0, report |-> amount, insure |-> 0]

\* Half burnt, three tenths to the reporter and the rest to the fund, if one is set.
Split(amount) ==
  IF insured THEN [burn |-> Share(amount, 5000), report |-> Share(amount, 3000),
                   insure |-> amount - Share(amount, 5000) - Share(amount, 3000)]
  ELSE [burn |-> 0, report |-> amount, insure |-> 0]

\* A plausible slip: the lockup clock is not started.
LeavesSilently(v, amount) == [v EXCEPT !.stake = @ - amount, !.active = FALSE]

Leaves(v, amount) ==
  [v EXCEPT !.stake = v.stake - amount, !.active = FALSE,
            !.leftAt = IF v.active THEN now ELSE v.leftAt]

\* slashValidator, called by the slasher: a tenth of what is left, and out of the
\* active set.  Each payment may be refused and is then credited; the fund accepts.
SlashValidator(n, ev) ==
  LET v == validators[n]
      amount == Share(v.stake, 1000)
      s == Split(amount)
  IN
  /\ v.op # Free
  /\ Len(slashes) < MaxSlashes
  /\ validators' = [validators EXCEPT ![n] = Leaves(@, amount)]
  /\ active' = IF v.active THEN RemoveFromActive(active, n) ELSE active
  /\ \E refused \in SUBSET {BurnSink, Reporter} :
       LET b == IF BurnSink \in refused THEN s.burn ELSE 0
           r == IF Reporter \in refused THEN s.report ELSE 0
       IN  /\ pending' = [[pending EXCEPT ![BurnSink] = @ + b] EXCEPT ![Reporter] = @ + r]
           /\ eth' = eth - (s.burn - b) - (s.report - r) - s.insure
  /\ fund' = [fund EXCEPT !.eth = @ + s.insure, !.deposited = @ + s.insure]
  /\ slashes' = Append(slashes,
       [node |-> n, ev |-> ev])

\* The slasher before the detector took over.
SlashByAdmin(n) ==
  /\ slasher = Admin
  /\ SlashValidator(n, <<>>)
  /\ UNCHANGED <<now, roles, lastSlash, consumed, lastSeen>>

\* A plausible slip: the order of the two hashes is part of the key.
OrderedKey(ev) == <<ev.node, ev.phase, ev.height, <<ev.a, ev.b>>>>

EvidenceKey(ev) == <<ev.node, ev.phase, ev.height, {ev.a, ev.b}>>

Cooling(n) == lastSlash[n] # 0 /\ now < lastSlash[n] + cooldown

\* A slash that reverts takes the mark on the evidence with it.
SubmitEvidence(ev) ==
  /\ ev.a # ev.b
  /\ EvidenceKey(ev) \notin consumed
  /\ ~Cooling(ev.node)
  /\ slasher = Detector
  /\ SlashValidator(ev.node, ev)
  /\ consumed' = consumed \cup {EvidenceKey(ev)}
  /\ lastSlash' = [lastSlash EXCEPT ![ev.node] = now]
  /\ UNCHANGED <<now, roles, lastSeen>>

WithdrawPayments(a) ==
  /\ pending[a] > 0
  /\ eth' = eth - pending[a]
  /\ pending' = [pending EXCEPT ![a] = 0]
  /\ UNCHANGED <<now, validators, active, roles, detector, fund>>
------------------------------------------------------------------------------
AvailableBalance == Max({fund.eth - fund.pendingTotal, 0})

\* withdraw of the fund, by governance.
FundWithdraw(to, amount) ==
  /\ amount <= AvailableBalance
  /\ \/ fund' = [fund EXCEPT !.withdrawn = @ + amount, !.eth = @ - amount]
     \/ fund' = [fund EXCEPT !.withdrawn = @ + amount, !.pendingTotal = @ + amount,
                             !.pending[to] = @ + amount]
  /\ UNCHANGED <<now, registry, roles, detector>>

FundWithdrawPayments(a) ==
  /\ fund.pending[a] > 0
  /\ fund' = [fund EXCEPT !.eth = @ - fund.pending[a], !.pendingTotal = @ - fund.pending[a],
                          !.pending[a] = 0]
  /\ UNCHANGED <<now, registry, roles, detector>>
------------------------------------------------------------------------------
SetSlasher(a) ==
  /\ slasher # a
  /\ slasher' = a
  /\ UNCHANGED <<now, registry, insured, cooldown, detector, fund>>

SetInsuranceFund(on) ==
  /\ insured # on
  /\ insured' = on
  /\ UNCHANGED <<now, registry, slasher, cooldown, detector, fund>>

SetSlashCooldown(blocks) ==
  /\ cooldown # blocks
  /\ cooldown' = blocks
  /\ UNCHANGED <<now, registry, slasher, insured, detector, fund>>

Tick ==
  /\ now < MaxTime
  /\ now' = now + 1
  /\ lastSeen' = [n \in NodeIds |-> IF n \in Range(active) THEN now' ELSE lastSeen[n]]
  /\ UNCHANGED <<registry, roles, lastSlash, consumed, slashes, fund>>

Next ==
  \/ \E a \in Operators, n \in NodeIds, amount \in Stakes : Stake(a, n, amount)
  \/ \E n \in NodeIds : RequestUnstake(n) \/ WithdrawStake(n) \/ SlashByAdmin(n)
  \/ \E ev \in Evidence : SubmitEvidence(ev)
  \/ \E a \in Payees : WithdrawPayments(a) \/ FundWithdrawPayments(a)
  \/ \E a \in Operators, amount \in Withdrawals : FundWithdraw(a, amount)
  \/ \E a \in NewSlashers : SetSlasher(a)
  \/ \E on \in BOOLEAN : SetInsuranceFund(on)
  \/ \E blocks \in NewCooldowns : SetSlashCooldown(blocks)
  \/ Tick

Spec == Init /\ [][Next]_vars
------------------------------------------------------------------------------
StakeTable == [n \in NodeIds |-> validators[n].stake]

\* The list that getActiveValidators returns, from which nodes build the BFT set, has
\* every active validator once and nobody else, through every swap and pop.
ActiveListIsExact ==
  /\ validators \in [NodeIds -> [op : Operators \cup {Free}, stake : Nat, leftAt : Nat,
                                 active : BOOLEAN]]
  /\ Range(active) = {n \in NodeIds : validators[n].active}
  /\ Len(active) = Cardinality(Range(active))
  /\ Len(active) <= MaxValidators

\* The registry holds exactly the stakes and the credited payments, whichever slash
\* payments were refused and however the shares were rounded; and whatever governance
\* takes out of the fund, it can still pay everyone whose payment was refused.
MoneyIsCovered ==
  /\ eth = Total(StakeTable) + Total(pending)
  /\ fund.eth >= Total(fund.pending)

\* Both tables of the registry stay exact together: who votes, and whose money it is.
RegistryIsExact == ActiveListIsExact /\ MoneyIsCovered

\* "One equivocation, one slash - forever": also after the cooldown, with the hashes
\* swapped, or after the validator withdrew and staked again.
OneSlashPerEquivocation ==
  \A i, j \in DOMAIN slashes :
    slashes[i].ev # <<>> /\ slashes[j].ev # <<>> /\ i # j =>
      \/ slashes[i].node # slashes[j].node
      \/ <<slashes[i].ev.phase, slashes[i].ev.height>> # <<slashes[j].ev.phase, slashes[j].ev.height>>
      \/ {slashes[i].ev.a, slashes[i].ev.b} # {slashes[j].ev.a, slashes[j].ev.b}

\* Stake leaves the contract only when the validator has been out of the active set for
\* the whole lockup, whether it asked to leave or was slashed out.
LockupHolds ==
  [][\A n \in NodeIds :
       validators[n].op # Free /\ validators'[n].op = Free => now >= lastSeen[n] + Lockup]_vars
==============================================================================
