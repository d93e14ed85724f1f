----------------------- MODULE ValidatorRegistryProofs -----------------------
(***************************************************************************)
(* EquivocationDetector.sol slashes once per equivocation, no stake leaves *)
(* ValidatorRegistry.sol before its lockup is over, and the two contracts  *)
(* and the insurance fund hold exactly what they account for, for any set  *)
(* of evidence, any number of validators, any lockup and any cooldowns.    *)
(***************************************************************************)
EXTENDS ValidatorRegistry, TotalsProofs, TLAPS

\* Entries of the history of slashes.
SlashRecord == [node : NodeIds, ev : Evidence \cup {<<>>}]

\* Every slash by evidence has left its key among the consumed ones, and no two
\* slashes share a key.
IInv ==
  /\ slashes \in Seq(SlashRecord)
  /\ \A i \in DOMAIN slashes :
       slashes[i].ev # <<>> =>
         /\ slashes[i].node = slashes[i].ev.node
         /\ EvidenceKey(slashes[i].ev) \in consumed
  /\ \A i, j \in DOMAIN slashes :
       slashes[i].ev # <<>> /\ slashes[j].ev # <<>> /\ i # j =>
         EvidenceKey(slashes[i].ev) # EvidenceKey(slashes[j].ev)

\* What a slash adds to the history, whoever calls slashValidator.
LEMMA SlashAppends ==
  ASSUME NEW n \in NodeIds, NEW ev \in Evidence \cup {<<>>}, SlashValidator(n, ev),
         slashes \in Seq(SlashRecord)
  PROVE  /\ slashes' \in Seq(SlashRecord)
         /\ DOMAIN slashes' = DOMAIN slashes \cup {Len(slashes) + 1}
         /\ Len(slashes) + 1 \notin DOMAIN slashes
         /\ \A i \in DOMAIN slashes : slashes'[i] = slashes[i]
         /\ slashes'[Len(slashes) + 1] = [node |-> n, ev |-> ev]
<1>1. slashes' = Append(slashes, [node |-> n, ev |-> ev])
  BY DEF SlashValidator
<1>2. [node |-> n, ev |-> ev] \in SlashRecord
  BY Zenon DEF SlashRecord
<1> QED
  BY <1>1, <1>2

\* A slash by the administrator carries no evidence.
LEMMA AdminKeepsInv ==
  ASSUME IInv, NEW n \in NodeIds, SlashByAdmin(n)
  PROVE  IInv'
<1>1. SlashValidator(n, <<>>) /\ consumed' = consumed
  BY Zenon DEF SlashByAdmin
<1>2. /\ slashes' \in Seq(SlashRecord)
      /\ DOMAIN slashes' = DOMAIN slashes \cup {Len(slashes) + 1}
      /\ \A i \in DOMAIN slashes : slashes'[i] = slashes[i]
      /\ slashes'[Len(slashes) + 1] = [node |-> n, ev |-> <<>>]
  <2>1. <<>> \in Evidence \cup {<<>>} /\ slashes \in Seq(SlashRecord)
    BY Zenon DEF IInv
  <2> QED
    BY <1>1, <2>1, SlashAppends, Zenon
<1>3. slashes'[Len(slashes) + 1].ev = <<>>
  BY <1>2
<1>4. \A i \in DOMAIN slashes' :
        slashes'[i].ev # <<>> =>
          /\ slashes'[i].node = slashes'[i].ev.node
          /\ EvidenceKey(slashes'[i].ev) \in consumed'
  BY <1>1, <1>2, <1>3, Zenon DEF IInv
<1>5. \A i, j \in DOMAIN slashes' :
        slashes'[i].ev # <<>> /\ slashes'[j].ev # <<>> /\ i # j =>
          EvidenceKey(slashes'[i].ev) # EvidenceKey(slashes'[j].ev)
  BY <1>2, <1>3 DEF IInv
<1> QED
  BY <1>2, <1>4, <1>5, Zenon DEF IInv

\* Evidence slashes only with a key that no earlier slash has.
LEMMA EvidenceKeepsInv ==
  ASSUME IInv, NEW ev \in Evidence, ev.node \in NodeIds, SubmitEvidence(ev)
  PROVE  IInv'
<1> DEFINE new == Len(slashes) + 1
<1>1. /\ SlashValidator(ev.node, ev)
      /\ EvidenceKey(ev) \notin consumed
      /\ consumed' = consumed \cup {EvidenceKey(ev)}
  BY Zenon DEF SubmitEvidence
<1>2. /\ slashes' \in Seq(SlashRecord)
      /\ DOMAIN slashes' = DOMAIN slashes \cup {new}
      /\ \A i \in DOMAIN slashes : slashes'[i] = slashes[i]
      /\ slashes'[new] = [node |-> ev.node, ev |-> ev]
  BY <1>1, SlashAppends, Zenon DEF IInv
<1>3. slashes'[new].node = ev.node /\ slashes'[new].ev = ev
  BY <1>2
<1>4. \A i \in DOMAIN slashes' :
        slashes'[i].ev # <<>> =>
          /\ slashes'[i].node = slashes'[i].ev.node
          /\ EvidenceKey(slashes'[i].ev) \in consumed'
  BY <1>1, <1>2, <1>3, Zenon DEF IInv
<1>5. \A i \in DOMAIN slashes :
        slashes[i].ev # <<>> => EvidenceKey(slashes[i].ev) # EvidenceKey(ev)
  BY <1>1, Zenon DEF IInv
<1>6. ASSUME NEW i \in DOMAIN slashes', NEW j \in DOMAIN slashes',
             slashes'[i].ev # <<>>, slashes'[j].ev # <<>>, i # j
      PROVE  EvidenceKey(slashes'[i].ev) # EvidenceKey(slashes'[j].ev)
  <2>1. CASE i \in DOMAIN slashes /\ j \in DOMAIN slashes
    BY <1>2, <1>6, <2>1 DEF IInv
  <2>2. CASE i = new \/ j = new
    BY <1>2, <1>3, <1>5, <1>6, <2>2, Zenon
  <2> QED
    BY <1>2, <2>1, <2>2, Zenon
<1> QED
  <2>1. \A i, j \in DOMAIN slashes' :
          slashes'[i].ev # <<>> /\ slashes'[j].ev # <<>> /\ i # j =>
            EvidenceKey(slashes'[i].ev) # EvidenceKey(slashes'[j].ev)
    BY <1>6, Zenon
  <2>2. slashes' \in Seq(SlashRecord)
    BY <1>2, Zenon
  <2> QED
    BY <1>4, <2>1, <2>2, Zenon DEF IInv

\* Every step keeps IInv: only the two ways to slash touch what it is about.
LEMMA NextKeepsInv ==
  ASSUME IInv, [Next]_vars, \A ev \in Evidence : ev.node \in NodeIds
  PROVE  IInv'
<1>1. CASE UNCHANGED <<slashes, consumed>>
  BY <1>1 DEF IInv
<1>2. CASE \E n \in NodeIds : SlashByAdmin(n)
  BY <1>2, AdminKeepsInv, Zenon
<1>3. CASE \E ev \in Evidence : SubmitEvidence(ev)
  BY <1>3, EvidenceKeepsInv, Zenon
<1>4. \/ UNCHANGED <<slashes, consumed>>
      \/ \E n \in NodeIds : SlashByAdmin(n)
      \/ \E ev \in Evidence : SubmitEvidence(ev)
  <2>1. CASE UNCHANGED vars
    BY <2>1, Zenon DEF vars
  <2>2. CASE \E a \in Operators, n \in NodeIds, amount \in Stakes : Stake(a, n, amount)
    BY <2>2, Zenon DEF Stake
  <2>3. CASE \E n \in NodeIds : RequestUnstake(n)
    BY <2>3, Zenon DEF RequestUnstake, detector
  <2>4. CASE \E n \in NodeIds : WithdrawStake(n)
    BY <2>4, Zenon DEF WithdrawStake, detector
  <2>5. CASE \E a \in Payees : WithdrawPayments(a)
    BY <2>5, Zenon DEF WithdrawPayments, detector
  <2>6. CASE \E a \in Payees : FundWithdrawPayments(a)
    BY <2>6, Zenon DEF FundWithdrawPayments, detector
  <2>7. CASE \E a \in Operators, amount \in Withdrawals : FundWithdraw(a, amount)
    BY <2>7, Zenon DEF FundWithdraw, detector
  <2>8. CASE \E x : SetSlasher(x) \/ SetInsuranceFund(x) \/ SetSlashCooldown(x)
    BY <2>8, Zenon DEF SetSlasher, SetInsuranceFund, SetSlashCooldown, detector
  <2>9. CASE Tick
    BY <2>9, Zenon DEF Tick
  <2> QED
    BY <2>1, <2>2, <2>3, <2>4, <2>5, <2>6, <2>7, <2>8, <2>9, Zenon DEF Next
<1> QED
  BY <1>1, <1>2, <1>3, <1>4, Zenon

\* Whatever evidence is submitted, however often, in either order of the hashes and
\* across withdrawals and new stakes, one equivocation costs a validator one slash.
THEOREM SlashedOnce ==
  ASSUME \A ev \in Evidence : ev.node \in NodeIds
  PROVE  Spec => []OneSlashPerEquivocation
<1>1. Init => IInv
  BY DEF Init, IInv
<1>2. IInv /\ [Next]_vars => IInv'
  BY NextKeepsInv, Zenon
<1>3. IInv => OneSlashPerEquivocation
  BY Zenon DEF IInv, EvidenceKey, OneSlashPerEquivocation
<1> QED
  BY <1>1, <1>2, <1>3, PTL DEF Spec
------------------------------------------------------------------------------
\* Entries of the table of validators.
Entry == [op : Operators \cup {Free}, stake : Nat, leftAt : Nat, active : BOOLEAN]

\* The list has no node twice.
Distinct(s) == \A i, j \in DOMAIN s : s[i] = s[j] => i = j

\* The list and the flags agree, and a validator that is out has been out since leftAt.
LInv ==
  /\ now \in Nat
  /\ validators \in [NodeIds -> Entry]
  /\ active \in Seq(NodeIds)
  /\ Distinct(active)
  /\ \A n \in NodeIds : validators[n].active <=> \E i \in DOMAIN active : active[i] = n
  /\ lastSeen \in [NodeIds -> Nat]
  /\ \A n \in NodeIds :
       /\ lastSeen[n] <= now
       /\ validators[n].active => validators[n].op # Free
       /\ validators[n].op # Free /\ ~validators[n].active => lastSeen[n] <= validators[n].leftAt

\* The swap and the pop take out the one node and keep every other.
LEMMA SwapAndPop ==
  ASSUME NEW s \in Seq(NodeIds), Distinct(s), NEW n \in NodeIds,
         \E i \in DOMAIN s : s[i] = n
  PROVE  /\ RemoveFromActive(s, n) \in Seq(NodeIds)
         /\ Distinct(RemoveFromActive(s, n))
         /\ \A m \in NodeIds :
              (\E i \in DOMAIN RemoveFromActive(s, n) : RemoveFromActive(s, n)[i] = m)
                <=> m # n /\ \E i \in DOMAIN s : s[i] = m
<1> DEFINE at == CHOOSE i \in DOMAIN s : s[i] = n
           last == Len(s)
           out == RemoveFromActive(s, n)
<1>1. at \in 1 .. last /\ s[at] = n /\ last \in Nat \ {0} /\ DOMAIN s = 1 .. last
  OBVIOUS
<1>2. [s EXCEPT ![at] = s[last]] \in Seq(NodeIds) /\ Len([s EXCEPT ![at] = s[last]]) = last
  BY <1>1
<1>3. out = SubSeq([s EXCEPT ![at] = s[last]], 1, last - 1)
  BY <1>1, <1>2, Zenon DEF RemoveFromActive
<1> HIDE DEF at
<1>4. /\ out \in Seq(NodeIds)
      /\ DOMAIN out = 1 .. last - 1
      /\ \A i \in 1 .. last - 1 : out[i] = IF i = at THEN s[last] ELSE s[i]
  BY <1>1, <1>2, <1>3
<1> HIDE DEF out
<1>5. Distinct(out)
  BY <1>1, <1>4 DEF Distinct
<1>6. ASSUME NEW m \in NodeIds
      PROVE  (\E i \in DOMAIN out : out[i] = m) <=> m # n /\ \E i \in DOMAIN s : s[i] = m
  <2>1. ASSUME NEW i \in DOMAIN out, out[i] = m PROVE m # n /\ \E k \in DOMAIN s : s[k] = m
    BY <1>1, <1>4, <2>1 DEF Distinct
  <2>2. ASSUME m # n, NEW i \in DOMAIN s, s[i] = m PROVE \E k \in DOMAIN out : out[k] = m
    <3>1. CASE i = last
      BY <1>1, <1>4, <2>2, <3>1
    <3>2. CASE i # last
      BY <1>1, <1>4, <2>2, <3>2
    <3> QED
      BY <3>1, <3>2, Zenon
  <2> QED
    BY <2>1, <2>2, Zenon
<1> QED
  BY <1>4, <1>5, <1>6, Zenon DEF out

\* A validator that joins goes to the end of the list.
LEMMA StakeKeepsLInv ==
  ASSUME LInv, Stakes \subseteq Nat, Free \notin Operators,
         NEW a \in Operators, NEW n \in NodeIds, NEW amount \in Stakes, Stake(a, n, amount)
  PROVE  LInv'
<1>1. /\ now' = now /\ active' = Append(active, n) /\ ~validators[n].active
      /\ validators' = [validators EXCEPT ![n] =
            [op |-> a, stake |-> amount, leftAt |-> 0, active |-> TRUE]]
      /\ lastSeen' = [lastSeen EXCEPT ![n] = now]
  BY Zenon DEF Stake, LInv
<1>2. active' \in Seq(NodeIds) /\ Distinct(active')
  BY <1>1 DEF LInv, Distinct
<1>3. validators' \in [NodeIds -> Entry] /\ now' \in Nat /\ lastSeen' \in [NodeIds -> Nat]
  BY <1>1, Zenon DEF LInv, Entry
<1>4. /\ DOMAIN active' = DOMAIN active \cup {Len(active) + 1}
      /\ \A i \in DOMAIN active : active'[i] = active[i]
      /\ active'[Len(active) + 1] = n
  BY <1>1 DEF LInv
<1>5. \A m \in NodeIds : validators'[m].active <=> \E i \in DOMAIN active' : active'[i] = m
  <2>1. TAKE m \in NodeIds
  <2>2. CASE m = n
    BY <1>1, <1>4, <2>2, Zenon DEF LInv
  <2>3. CASE m # n
    <3>1. validators'[m] = validators[m]
      BY <1>1, <2>3, Zenon DEF LInv
    <3>2. (\E i \in DOMAIN active' : active'[i] = m) <=> \E i \in DOMAIN active : active[i] = m
      BY <1>4, <2>3, Zenon
    <3> QED
      BY <3>1, <3>2, Zenon DEF LInv
  <2> QED
    BY <2>2, <2>3, Zenon
<1>6. \A m \in NodeIds :
        /\ lastSeen'[m] <= now'
        /\ validators'[m].active => validators'[m].op # Free
        /\ validators'[m].op # Free /\ ~validators'[m].active => lastSeen'[m] <= validators'[m].leftAt
  BY <1>1 DEF LInv
<1> QED
  BY <1>2, <1>3, <1>5, <1>6, Zenon DEF LInv

\* A validator that is out, by its own request or by a slash, has its clock started.
LEMMA LeavingKeepsLInv ==
  ASSUME LInv, NEW n \in NodeIds, validators[n].op # Free, NEW w \in Entry,
         w.op = validators[n].op, ~w.active,
         w.leftAt = IF validators[n].active THEN now ELSE validators[n].leftAt,
         validators' = [validators EXCEPT ![n] = w],
         active' = IF validators[n].active THEN RemoveFromActive(active, n) ELSE active,
         now' = now, lastSeen' = lastSeen
  PROVE  LInv'
<1>1. validators' \in [NodeIds -> Entry] /\ now' \in Nat /\ lastSeen' \in [NodeIds -> Nat]
  BY Zenon DEF LInv
<1>2. /\ active' \in Seq(NodeIds) /\ Distinct(active')
      /\ \A m \in NodeIds : (\E i \in DOMAIN active' : active'[i] = m)
                               <=> m # n /\ \E i \in DOMAIN active : active[i] = m
  <2>1. CASE validators[n].active
    <3>1. active \in Seq(NodeIds) /\ Distinct(active) /\ \E i \in DOMAIN active : active[i] = n
      BY <2>1, Zenon DEF LInv
    <3> QED
      BY <2>1, <3>1, SwapAndPop
  <2>2. CASE ~validators[n].active
    BY <2>2, Zenon DEF LInv, Distinct
  <2> QED
    BY <2>1, <2>2, Zenon
<1>3. \A m \in NodeIds : validators'[m].active <=> \E i \in DOMAIN active' : active'[i] = m
  BY <1>2 DEF LInv
<1>4. \A m \in NodeIds :
        /\ lastSeen'[m] <= now'
        /\ validators'[m].active => validators'[m].op # Free
        /\ validators'[m].op # Free /\ ~validators'[m].active => lastSeen'[m] <= validators'[m].leftAt
  BY DEF LInv
<1> QED
  BY <1>1, <1>2, <1>3, <1>4, Zenon DEF LInv

\* What a slash leaves of an entry.
LEMMA LeavesEntry ==
  ASSUME NEW v \in Entry, NEW amount \in 0 .. v.stake, now \in Nat
  PROVE  /\ Leaves(v, amount) \in Entry
         /\ Leaves(v, amount).op = v.op
         /\ ~Leaves(v, amount).active
         /\ Leaves(v, amount).leftAt = IF v.active THEN now ELSE v.leftAt
<1> DEFINE at == IF v.active THEN now ELSE v.leftAt
           rest == v.stake - amount
<1>1. at \in Nat /\ rest \in Nat
  BY DEF Entry
<1> HIDE DEF at, rest
<1>2. Leaves(v, amount) = [v EXCEPT !.stake = rest, !.active = FALSE, !.leftAt = at]
  BY Zenon DEF Leaves, at, rest
<1>3. Leaves(v, amount) \in Entry
  BY <1>1, <1>2, Zenon DEF Entry
<1>4. Leaves(v, amount).op = v.op
  BY <1>1, <1>2, Zenon DEF Entry
<1>5. ~Leaves(v, amount).active
  BY <1>1, <1>2, Zenon DEF Entry
<1>6. Leaves(v, amount).leftAt = at
  BY <1>1, <1>2, Zenon DEF Entry
<1> QED
  BY <1>3, <1>4, <1>5, <1>6, Zenon DEF at

\* slashValidator is one way to leave.
LEMMA SlashKeepsLInv ==
  ASSUME LInv, NEW n \in NodeIds, NEW ev, SlashValidator(n, ev), now' = now, lastSeen' = lastSeen
  PROVE  LInv'
<1> DEFINE v == validators[n]
           amount == Share(v.stake, 1000)
           w == Leaves(v, amount)
<1>1. v \in Entry /\ now \in Nat
  BY Zenon DEF LInv
<1>2. amount \in 0 .. v.stake
  BY <1>1 DEF Share, Entry
<1>3. /\ v.op # Free
      /\ validators' = [validators EXCEPT ![n] = w]
      /\ active' = IF v.active THEN RemoveFromActive(active, n) ELSE active
  BY DEF SlashValidator
<1> HIDE DEF amount, v
<1>4. /\ w \in Entry /\ w.op = v.op /\ ~w.active
      /\ w.leftAt = IF v.active THEN now ELSE v.leftAt
  BY <1>1, <1>2, LeavesEntry, Zenon
<1> HIDE DEF w
<1> QED
  BY <1>3, <1>4, LeavingKeepsLInv, Zenon DEF v

\* Every transaction keeps the list and the flags together.
LEMMA NextKeepsLInv ==
  ASSUME Stakes \subseteq Nat, Free \notin Operators,
         \A ev \in Evidence : ev.node \in NodeIds, LInv, [Next]_vars
  PROVE  LInv'
<1>1. ASSUME NEW a \in Operators, NEW n \in NodeIds, NEW amount \in Stakes, Stake(a, n, amount)
      PROVE  LInv'
  BY <1>1, StakeKeepsLInv, Zenon
<1>2. ASSUME NEW n \in NodeIds, RequestUnstake(n) PROVE LInv'
  <2> DEFINE w == [validators[n] EXCEPT !.active = FALSE, !.leftAt = now]
  <2>1. validators[n] \in Entry /\ now \in Nat /\ validators[n].op # Free
    BY <1>2, Zenon DEF LInv, RequestUnstake
  <2>2. /\ w \in Entry /\ w.op = validators[n].op /\ ~w.active
        /\ w.leftAt = IF validators[n].active THEN now ELSE validators[n].leftAt
    BY <1>2, <2>1, Zenon DEF RequestUnstake, Entry
  <2>3. /\ validators' = [validators EXCEPT ![n] = w]
        /\ active' = IF validators[n].active THEN RemoveFromActive(active, n) ELSE active
        /\ now' = now /\ lastSeen' = lastSeen
    BY <1>2, Zenon DEF RequestUnstake, detector, LInv
  <2> HIDE DEF w
  <2> QED
    BY <2>1, <2>2, <2>3, LeavingKeepsLInv, Zenon
<1>3. ASSUME NEW n \in NodeIds, WithdrawStake(n) PROVE LInv'
  <2>1. /\ validators' = [validators EXCEPT ![n] = NoEntry] /\ ~validators[n].active
        /\ now' = now /\ active' = active /\ lastSeen' = lastSeen
    BY <1>3, Zenon DEF WithdrawStake, MayWithdraw, detector
  <2>2. NoEntry \in Entry /\ ~NoEntry.active /\ NoEntry.op = Free
    BY Zenon DEF NoEntry, Entry
  <2> QED
    BY <2>1, <2>2, Zenon DEF LInv
<1>4. ASSUME NEW n \in NodeIds, SlashByAdmin(n) PROVE LInv'
  BY <1>4, SlashKeepsLInv, Zenon DEF SlashByAdmin
<1>5. ASSUME NEW ev \in Evidence, SubmitEvidence(ev) PROVE LInv'
  <2>1. ev.node \in NodeIds /\ SlashValidator(ev.node, ev) /\ now' = now /\ lastSeen' = lastSeen
    BY <1>5, Zenon DEF SubmitEvidence
  <2> QED
    BY <2>1, SlashKeepsLInv, Zenon
<1>6. CASE Tick
  <2>1. /\ now' = now + 1 /\ validators' = validators /\ active' = active
        /\ lastSeen' = [n \in NodeIds |-> IF n \in Range(active) THEN now' ELSE lastSeen[n]]
    BY <1>6, Zenon DEF Tick, registry
  <2>2. \A n \in NodeIds : n \in Range(active) <=> validators[n].active
    BY Zenon DEF LInv, Range
  <2> QED
    BY <2>1, <2>2 DEF LInv
<1>7. ASSUME UNCHANGED <<now, validators, active, lastSeen>> PROVE LInv'
  BY <1>7, Zenon DEF LInv, Distinct
<1>8. ASSUME NEW a, WithdrawPayments(a) \/ FundWithdrawPayments(a)
      PROVE  UNCHANGED <<now, validators, active, lastSeen>>
  BY <1>8, Zenon DEF WithdrawPayments, FundWithdrawPayments, registry, detector
<1>9. ASSUME NEW a, NEW amount, FundWithdraw(a, amount)
      PROVE  UNCHANGED <<now, validators, active, lastSeen>>
  BY <1>9, Zenon DEF FundWithdraw, registry, detector
<1>10. ASSUME NEW x, SetSlasher(x) \/ SetInsuranceFund(x) \/ SetSlashCooldown(x)
       PROVE  UNCHANGED <<now, validators, active, lastSeen>>
  BY <1>10, Zenon DEF SetSlasher, SetInsuranceFund, SetSlashCooldown, registry, detector
<1>11. CASE UNCHANGED vars
  BY <1>7, <1>11, Zenon DEF vars
<1> QED
  BY <1>1, <1>2, <1>3, <1>4, <1>5, <1>6, <1>7, <1>8, <1>9, <1>10, <1>11, Zenon DEF Next

\* No stake leaves ValidatorRegistry.sol before its validator has been out of the active
\* set for the whole lockup, for any lockup and any number of validators.
THEOREM LockupIsServed ==
  ASSUME Stakes \subseteq Nat, Lockup \in Nat, Free \notin Operators,
         \A ev \in Evidence : ev.node \in NodeIds
  PROVE  Spec => LockupHolds
<1>1. Init => LInv
  BY DEF Init, LInv, Entry, NoEntry, Distinct
<1>2. LInv /\ [Next]_vars => LInv'
  BY NextKeepsLInv, Zenon
<1>3. LInv /\ [Next]_vars =>
        [\A n \in NodeIds : validators[n].op # Free /\ validators'[n].op = Free
                              => now >= lastSeen[n] + Lockup]_vars
  <2> SUFFICES ASSUME LInv, Next, NEW n \in NodeIds,
                      validators[n].op # Free, validators'[n].op = Free
               PROVE  now >= lastSeen[n] + Lockup
    BY Zenon
  <2> DEFINE Kept == validators'[n].op = validators[n].op
  <2>1. ASSUME NEW a \in Operators, NEW m \in NodeIds, NEW amount \in Stakes, Stake(a, m, amount)
        PROVE  Kept
    BY <2>1, Zenon DEF Stake, LInv
  <2>2. ASSUME NEW m \in NodeIds, RequestUnstake(m) PROVE Kept
    BY <2>2 DEF RequestUnstake, LInv, Entry
  <2>3. ASSUME NEW m \in NodeIds, NEW ev, SlashValidator(m, ev) PROVE Kept
    BY <2>3 DEF SlashValidator, Leaves, LInv, Entry
  <2>4. ASSUME NEW m \in NodeIds, SlashByAdmin(m) PROVE Kept
    BY <2>3, <2>4, Zenon DEF SlashByAdmin
  <2>5. ASSUME NEW ev \in Evidence, SubmitEvidence(ev) PROVE Kept
    BY <2>3, <2>5, Zenon DEF SubmitEvidence
  <2>6. ASSUME NEW a, NEW amount,
               \/ WithdrawPayments(a) \/ FundWithdrawPayments(a) \/ FundWithdraw(a, amount)
               \/ SetSlasher(a) \/ SetInsuranceFund(a) \/ SetSlashCooldown(a) \/ Tick
        PROVE  Kept
    BY <2>6, Zenon DEF WithdrawPayments, FundWithdrawPayments, FundWithdraw, SetSlasher,
                SetInsuranceFund, SetSlashCooldown, Tick, registry
  <2>7. \E m \in NodeIds : WithdrawStake(m)
    BY <2>1, <2>2, <2>4, <2>5, <2>6, Zenon DEF Next
  <2> QED
    BY <2>7 DEF WithdrawStake, MayWithdraw, LInv, Entry
<1> QED
  BY <1>1, <1>2, <1>3, PTL DEF Spec, LockupHolds
------------------------------------------------------------------------------
\* What the constants are in any deployment: finitely many accounts, amounts that are
\* natural numbers, and evidence about known nodes.
Deployment ==
  /\ IsFiniteSet(NodeIds) /\ IsFiniteSet(Operators)
  /\ Stakes \subseteq Nat /\ Withdrawals \subseteq Nat /\ MaxValidators \in Nat
  /\ Free \notin Operators
  /\ \A ev \in Evidence : ev.node \in NodeIds

\* The registry: an entry that is free holds nothing, and what the contract holds is the
\* stakes and the credited payments.
RInv ==
  /\ LInv
  /\ \A n \in NodeIds : validators[n].op = Free => validators[n].stake = 0
  /\ pending \in [Payees -> Nat]
  /\ eth = Total(StakeTable) + Total(pending)
  /\ Len(active) <= MaxValidators

\* The fund: pendingTotal, which withdraw keeps back, is the sum of what is owed.
FInv ==
  /\ fund \in [eth : Nat, deposited : Nat, withdrawn : Nat, pendingTotal : Nat,
               pending : [Payees -> Nat]]
  /\ fund.pendingTotal = Total(fund.pending)
  /\ fund.pendingTotal <= fund.eth

\* There are finitely many accounts to pay.
LEMMA PayeesFinite ==
  ASSUME Deployment
  PROVE  IsFiniteSet(Payees)
<1>1. IsFiniteSet({Reporter, BurnSink})
  <2>1. IsFiniteSet({Reporter} \cup {BurnSink})
    BY FS_Singleton, FS_AddElement, Zenon
  <2>2. {Reporter} \cup {BurnSink} = {Reporter, BurnSink}
    BY Zenon
  <2> QED BY <2>1, <2>2, Zenon
<1> QED BY <1>1, FS_Union, Zenon DEF Deployment, Payees

\* Changing one stake changes the staked total by the difference.
LEMMA NodeTotalChanges ==
  ASSUME Deployment, NEW f \in [NodeIds -> Nat], NEW g \in [NodeIds -> Nat], NEW n \in NodeIds,
         \A m \in NodeIds \ {n} : g[m] = f[m]
  PROVE  /\ Total(f) \in Nat
         /\ f[n] <= Total(f)
         /\ Total(g) = Total(f) - f[n] + g[n]
<1>1. IsFiniteSet(NodeIds)
  BY Zenon DEF Deployment
<1>2. Total(f) \in Nat /\ f[n] <= Total(f)
  BY <1>1, TotalIsNat, RowWithinTotal, Zenon
<1>3. Total(g) = Total(f) - f[n] + g[n]
  BY <1>1, TotalChanges
<1> QED BY <1>2, <1>3, Zenon

\* A step that replaces one entry does so.
LEMMA StakeTotalChanges ==
  ASSUME Deployment, validators \in [NodeIds -> Entry], NEW n \in NodeIds, NEW w \in Entry,
         validators' = [validators EXCEPT ![n] = w]
  PROVE  /\ Total(StakeTable) \in Nat
         /\ validators[n].stake <= Total(StakeTable)
         /\ Total(StakeTable') = Total(StakeTable) - validators[n].stake + w.stake
<1>1. /\ StakeTable \in [NodeIds -> Nat] /\ StakeTable' \in [NodeIds -> Nat]
      /\ \A m \in NodeIds \ {n} : StakeTable'[m] = StakeTable[m]
      /\ StakeTable[n] = validators[n].stake /\ StakeTable'[n] = w.stake
  BY Zenon DEF StakeTable, Entry
<1> QED BY <1>1, NodeTotalChanges, Zenon

\* The same for one account of a table of payments.
LEMMA PaymentTotalChanges ==
  ASSUME Deployment, NEW f \in [Payees -> Nat], NEW g \in [Payees -> Nat], NEW a \in Payees,
         \A y \in Payees \ {a} : g[y] = f[y]
  PROVE  /\ Total(f) \in Nat
         /\ f[a] <= Total(f)
         /\ Total(g) = Total(f) - f[a] + g[a]
<1>1. IsFiniteSet(Payees)
  BY PayeesFinite, Zenon
<1>2. Total(f) \in Nat /\ f[a] <= Total(f)
  BY <1>1, TotalIsNat, RowWithinTotal, Zenon
<1>3. Total(g) = Total(f) - f[a] + g[a]
  BY <1>1, TotalChanges
<1> QED BY <1>2, <1>3, Zenon

\* The three shares add up to what is taken, with and without a fund.
LEMMA SplitIsExact ==
  ASSUME NEW amount \in Nat
  PROVE  /\ Split(amount).burn \in Nat /\ Split(amount).report \in Nat
         /\ Split(amount).insure \in Nat
         /\ Split(amount).burn + Split(amount).report + Split(amount).insure = amount
<1>1. CASE insured
  <2> DEFINE b == Share(amount, 5000)
             r == Share(amount, 3000)
  <2>1. b \in Nat /\ r \in Nat /\ b + r <= amount
    BY DEF Share
  <2> HIDE DEF b, r
  <2>2. Split(amount) = [burn |-> b, report |-> r, insure |-> amount - b - r]
    BY <1>1 DEF Split, b, r
  <2> QED BY <2>1, <2>2
<1>2. CASE ~insured
  BY <1>2 DEF Split
<1> QED BY <1>1, <1>2, Zenon

\* The swap and the pop make the list shorter by one.
LEMMA PopIsShorter ==
  ASSUME NEW s \in Seq(NodeIds), NEW n \in NodeIds, \E i \in DOMAIN s : s[i] = n
  PROVE  Len(RemoveFromActive(s, n)) = Len(s) - 1
<1> DEFINE at == CHOOSE i \in DOMAIN s : s[i] = n
<1>1. at \in 1 .. Len(s) /\ Len(s) \in Nat \ {0}
  OBVIOUS
<1>2. [s EXCEPT ![at] = s[Len(s)]] \in Seq(NodeIds)
      /\ Len([s EXCEPT ![at] = s[Len(s)]]) = Len(s)
  BY <1>1
<1>3. RemoveFromActive(s, n) = SubSeq([s EXCEPT ![at] = s[Len(s)]], 1, Len(s) - 1)
  BY <1>1, <1>2, Zenon DEF RemoveFromActive
<1> QED BY <1>1, <1>2, <1>3

\* A list without repetitions is as long as the set of its members.
LEMMA LenIsCardinality ==
  ASSUME NEW s \in Seq(NodeIds), Distinct(s)
  PROVE  Len(s) = Cardinality(Range(s))
<1> DEFINE f == [i \in 1 .. Len(s) |-> s[i]]
<1>1. Len(s) \in Nat /\ DOMAIN s = 1 .. Len(s)
  OBVIOUS
<1>2. /\ f \in [1 .. Len(s) -> Range(s)]
      /\ \A i, j \in 1 .. Len(s) : f[i] = f[j] => i = j
      /\ \A x \in Range(s) : \E i \in 1 .. Len(s) : f[i] = x
  BY <1>1, Zenon DEF Distinct, Range
<1> HIDE DEF f
<1>3. f \in Bijection(1 .. Len(s), Range(s))
  BY <1>2, Zenon DEF Bijection, Injection, Surjection, IsInjective
<1>4. ExistsBijection(1 .. Len(s), Range(s))
  BY <1>3, Zenon DEF ExistsBijection
<1> QED BY <1>1, <1>4, FS_CountingElements, Zenon

\* Staking adds the amount to both sides.
LEMMA StakeKeepsRInv ==
  ASSUME Deployment, RInv, LInv', NEW a \in Operators, NEW n \in NodeIds, NEW amount \in Stakes,
         Stake(a, n, amount)
  PROVE  RInv'
<1> DEFINE w == [op |-> a, stake |-> amount, leftAt |-> 0, active |-> TRUE]
<1>1. /\ validators' = [validators EXCEPT ![n] = w] /\ validators[n].op = Free
      /\ eth' = eth + amount /\ pending' = pending
      /\ active' = Append(active, n) /\ Len(active) < MaxValidators
  BY Zenon DEF Stake
<1>2. w \in Entry /\ w.stake = amount /\ w.op = a /\ amount \in Nat
  BY Zenon DEF Entry, Deployment
<1>3. validators \in [NodeIds -> Entry] /\ active \in Seq(NodeIds)
  BY Zenon DEF RInv, LInv
<1> HIDE DEF w
<1>4. Total(StakeTable') = Total(StakeTable) + amount /\ Total(StakeTable) \in Nat
  <2>1. validators[n].stake = 0
    BY <1>1, Zenon DEF RInv
  <2>2. /\ Total(StakeTable') = Total(StakeTable) - validators[n].stake + w.stake
        /\ Total(StakeTable) \in Nat
    BY <1>1, <1>2, <1>3, StakeTotalChanges, Zenon
  <2> QED BY <1>2, <2>1, <2>2
<1>5. eth' = Total(StakeTable') + Total(pending')
  <2>1. Total(pending) \in Nat
    BY PayeesFinite, TotalIsNat, Zenon DEF RInv
  <2> QED BY <1>1, <1>2, <1>4, <2>1 DEF RInv
<1>6. Len(active') <= MaxValidators
  BY <1>1, <1>3 DEF Deployment
<1>7. \A m \in NodeIds : validators'[m].op = Free => validators'[m].stake = 0
  BY <1>1, <1>2, <1>3, Zenon DEF RInv, Deployment
<1> QED BY <1>1, <1>5, <1>6, <1>7, Zenon DEF RInv

\* Withdrawing takes the entry's stake from both sides.
LEMMA WithdrawKeepsRInv ==
  ASSUME Deployment, RInv, LInv', NEW n \in NodeIds, WithdrawStake(n)
  PROVE  RInv'
<1>1. /\ validators' = [validators EXCEPT ![n] = NoEntry]
      /\ eth' = eth - validators[n].stake /\ pending' = pending /\ active' = active
  BY Zenon DEF WithdrawStake
<1>2. NoEntry \in Entry /\ NoEntry.stake = 0
  BY Zenon DEF NoEntry, Entry
<1>3. validators \in [NodeIds -> Entry]
  BY Zenon DEF RInv, LInv
<1>4. /\ Total(StakeTable') = Total(StakeTable) - validators[n].stake + 0
      /\ Total(StakeTable) \in Nat /\ validators[n].stake \in Nat
  <2>1. validators[n].stake \in Nat
    BY <1>3, Zenon DEF Entry
  <2> QED BY <1>1, <1>2, <1>3, <2>1, StakeTotalChanges, Zenon
<1>5. Total(pending) \in Nat
  BY PayeesFinite, TotalIsNat, Zenon DEF RInv
<1>6. eth' = Total(StakeTable') + Total(pending')
  BY <1>1, <1>4, <1>5 DEF RInv
<1>7. \A m \in NodeIds : validators'[m].op = Free => validators'[m].stake = 0
  BY <1>1, <1>2, <1>3, Zenon DEF RInv
<1> QED BY <1>1, <1>6, <1>7, Zenon DEF RInv

\* Leaving moves no money.
LEMMA RequestKeepsRInv ==
  ASSUME Deployment, RInv, LInv', NEW n \in NodeIds, RequestUnstake(n)
  PROVE  RInv'
<1>1. /\ validators' = [validators EXCEPT ![n].active = FALSE, ![n].leftAt = now]
      /\ validators[n].active
      /\ active' = RemoveFromActive(active, n) /\ eth' = eth /\ pending' = pending
  BY Zenon DEF RequestUnstake
<1>2. validators \in [NodeIds -> Entry] /\ active \in Seq(NodeIds)
      /\ \E i \in DOMAIN active : active[i] = n
  BY <1>1, Zenon DEF RInv, LInv
<1>3. \A m \in NodeIds : /\ validators'[m].stake = validators[m].stake
                         /\ validators'[m].op = validators[m].op
  BY <1>1, <1>2, Zenon DEF Entry
<1>4. StakeTable' = StakeTable
  BY <1>3, Zenon DEF StakeTable
<1>5. Len(active') <= MaxValidators
  <2>1. Len(active') = Len(active) - 1
    BY <1>1, <1>2, PopIsShorter, Zenon
  <2> QED BY <1>2, <2>1 DEF RInv, Deployment
<1> QED BY <1>1, <1>3, <1>4, <1>5, Zenon DEF RInv

\* A slash takes from the stake what it pays out, credits and insures, whichever of the
\* two payments are refused and also when both go to one account.
LEMMA SlashKeepsRInv ==
  ASSUME Deployment, RInv, FInv, LInv', NEW n \in NodeIds, NEW ev, SlashValidator(n, ev)
  PROVE  RInv' /\ FInv'
<1> DEFINE v == validators[n]
           amount == Share(v.stake, 1000)
           s == Split(amount)
           w == Leaves(v, amount)
<1>1. v \in Entry /\ now \in Nat /\ validators \in [NodeIds -> Entry] /\ active \in Seq(NodeIds)
  BY Zenon DEF RInv, LInv
<1>2. amount \in 0 .. v.stake /\ v.stake \in Nat
  BY <1>1 DEF Share, Entry
<1>3. /\ v.op # Free
      /\ validators' = [validators EXCEPT ![n] = w]
      /\ active' = IF v.active THEN RemoveFromActive(active, n) ELSE active
      /\ fund' = [fund EXCEPT !.eth = @ + s.insure, !.deposited = @ + s.insure]
  BY DEF SlashValidator
<1>4. PICK refused \in SUBSET {BurnSink, Reporter} :
        LET b == IF BurnSink \in refused THEN s.burn ELSE 0
            r == IF Reporter \in refused THEN s.report ELSE 0
        IN  /\ pending' = [[pending EXCEPT ![BurnSink] = @ + b] EXCEPT ![Reporter] = @ + r]
            /\ eth' = eth - (s.burn - b) - (s.report - r) - s.insure
  BY Zenon DEF SlashValidator
<1> DEFINE b == IF BurnSink \in refused THEN s.burn ELSE 0
           r == IF Reporter \in refused THEN s.report ELSE 0
           credited == [pending EXCEPT ![BurnSink] = pending[BurnSink] + b]
<1>5. /\ s.burn \in Nat /\ s.report \in Nat /\ s.insure \in Nat
      /\ s.burn + s.report + s.insure = amount
  <2>1. amount \in Nat
    BY <1>2
  <2> HIDE DEF amount
  <2> QED BY <2>1, SplitIsExact, Zenon
<1>6. w \in Entry /\ w.op = v.op /\ w.stake = v.stake - amount
  <2>1. w \in Entry /\ w.op = v.op
    <3> HIDE DEF amount, v
    <3> QED BY <1>1, <1>2, LeavesEntry, Zenon
  <2>2. w.stake = v.stake - amount
    BY <1>1 DEF Leaves, Entry
  <2> QED BY <2>1, <2>2
<1> HIDE DEF w, s, amount
<1>7. /\ Total(StakeTable') = Total(StakeTable) - amount
      /\ Total(StakeTable) \in Nat /\ amount \in Nat /\ amount <= Total(StakeTable)
  <2>1. Total(StakeTable') = Total(StakeTable) - v.stake + w.stake
        /\ Total(StakeTable) \in Nat /\ v.stake <= Total(StakeTable)
    BY <1>1, <1>3, <1>6, StakeTotalChanges, Zenon
  <2> HIDE DEF v
  <2> QED BY <1>2, <1>6, <2>1
<1>8. BurnSink \in Payees /\ Reporter \in Payees /\ pending \in [Payees -> Nat]
  BY Zenon DEF Payees, RInv
<1>9. b \in Nat /\ r \in Nat
  BY <1>5, Zenon
<1>10. /\ pending' = [credited EXCEPT ![Reporter] = credited[Reporter] + r]
       /\ eth' = eth - (s.burn - b) - (s.report - r) - s.insure
  BY <1>4, <1>8, Zenon
<1> HIDE DEF b, r
<1>11. /\ credited \in [Payees -> Nat] /\ Total(pending) \in Nat
       /\ Total(credited) = Total(pending) + b
  <2>1. /\ credited \in [Payees -> Nat] /\ pending[BurnSink] \in Nat
        /\ credited[BurnSink] = pending[BurnSink] + b
        /\ \A y \in Payees \ {BurnSink} : credited[y] = pending[y]
    BY <1>8, <1>9
  <2> HIDE DEF credited
  <2>2. /\ Total(pending) \in Nat
        /\ Total(credited) = Total(pending) - pending[BurnSink] + credited[BurnSink]
    BY <1>8, <2>1, PaymentTotalChanges, Zenon
  <2> QED BY <1>9, <2>1, <2>2
<1> HIDE DEF credited
<1>12. pending' \in [Payees -> Nat] /\ Total(pending') = Total(credited) + r
  <2>1. /\ pending' \in [Payees -> Nat] /\ credited[Reporter] \in Nat
        /\ pending'[Reporter] = credited[Reporter] + r
        /\ \A y \in Payees \ {Reporter} : pending'[y] = credited[y]
    BY <1>8, <1>9, <1>10, <1>11
  <2>2. /\ Total(credited) \in Nat
        /\ Total(pending') = Total(credited) - credited[Reporter] + pending'[Reporter]
    BY <1>8, <1>11, <2>1, PaymentTotalChanges, Zenon
  <2> QED BY <1>9, <2>1, <2>2
<1>13. eth' = Total(StakeTable') + Total(pending')
  <2>1. eth = Total(StakeTable) + Total(pending)
    BY Zenon DEF RInv
  <2> QED BY <1>5, <1>7, <1>9, <1>10, <1>11, <1>12, <2>1
<1>14. Len(active') <= MaxValidators
  <2>1. CASE v.active
    <3>1. \E i \in DOMAIN active : active[i] = n
      BY <2>1, Zenon DEF RInv, LInv
    <3>2. Len(active') = Len(active) - 1
      BY <1>1, <1>3, <2>1, <3>1, PopIsShorter, Zenon
    <3> QED BY <1>1, <3>2 DEF RInv, Deployment
  <2>2. CASE ~v.active
    BY <1>3, <2>2, Zenon DEF RInv
  <2> QED BY <2>1, <2>2, Zenon
<1>15. \A m \in NodeIds : validators'[m].op = Free => validators'[m].stake = 0
  BY <1>1, <1>3, <1>6, Zenon DEF RInv
<1>16. RInv'
  BY <1>12, <1>13, <1>14, <1>15, Zenon DEF RInv
<1>17. FInv'
  <2> DEFINE i == s.insure
  <2>3. i \in Nat /\ fund' = [fund EXCEPT !.eth = fund.eth + i, !.deposited = fund.deposited + i]
    BY <1>3, <1>5, Zenon
  <2> HIDE DEF i
  <2>4. fund.eth + i \in Nat /\ fund.deposited + i \in Nat
    BY <2>3 DEF FInv
  <2>5. fund' \in [eth : Nat, deposited : Nat, withdrawn : Nat, pendingTotal : Nat,
                   pending : [Payees -> Nat]]
    BY <2>3, <2>4, Zenon DEF FInv
  <2>1. /\ fund'.eth = fund.eth + i /\ fund'.pendingTotal = fund.pendingTotal
        /\ fund'.pending = fund.pending
    BY <2>3, Zenon DEF FInv
  <2>2. fund.eth \in Nat /\ fund.pendingTotal \in Nat
    BY Zenon DEF FInv
  <2> QED BY <2>1, <2>2, <2>3, <2>5 DEF FInv
<1> QED BY <1>16, <1>17, Zenon

\* A credited payment leaves with its credit.
LEMMA PaymentKeepsRInv ==
  ASSUME Deployment, RInv, LInv', NEW a \in Payees, WithdrawPayments(a)
  PROVE  RInv'
<1>1. /\ eth' = eth - pending[a] /\ pending' = [pending EXCEPT ![a] = 0]
      /\ validators' = validators /\ active' = active
  BY Zenon DEF WithdrawPayments
<1>2. pending \in [Payees -> Nat] /\ eth = Total(StakeTable) + Total(pending)
  BY Zenon DEF RInv
<1>3. /\ pending' \in [Payees -> Nat] /\ pending[a] \in Nat /\ pending'[a] = 0
      /\ \A y \in Payees \ {a} : pending'[y] = pending[y]
  BY <1>1, <1>2, Zenon
<1>4. Total(pending) \in Nat /\ Total(pending') = Total(pending) - pending[a] + pending'[a]
  BY <1>2, <1>3, PaymentTotalChanges, Zenon
<1>5. StakeTable' = StakeTable /\ StakeTable \in [NodeIds -> Nat]
  BY <1>1, Zenon DEF StakeTable, RInv, LInv, Entry
<1>6. Total(StakeTable) \in Nat
  BY <1>5, TotalIsNat, Zenon DEF Deployment
<1>7. eth' = Total(StakeTable') + Total(pending')
  BY <1>1, <1>2, <1>3, <1>4, <1>5, <1>6
<1> QED BY <1>1, <1>3, <1>7, Zenon DEF RInv

\* Governance takes no more than is free, and a refused payment becomes owed.
LEMMA FundWithdrawKeepsFInv ==
  ASSUME Deployment, FInv, NEW to \in Operators, NEW amount \in Withdrawals,
         FundWithdraw(to, amount)
  PROVE  FInv'
<1> DEFINE free == fund.eth - fund.pendingTotal
<1>1. /\ fund.eth \in Nat /\ fund.deposited \in Nat /\ fund.withdrawn \in Nat
      /\ fund.pendingTotal \in Nat /\ fund.pending \in [Payees -> Nat]
      /\ amount \in Nat /\ to \in Payees /\ free \in Nat
  BY DEF FInv, Deployment, Payees
<1>2. amount <= free
  <2>1. AvailableBalance = Max({free, 0})
    BY Zenon DEF AvailableBalance
  <2> HIDE DEF free
  <2>2. Max({free, 0}) = free
    BY <1>1 DEF Max
  <2> QED BY <2>1, <2>2, Zenon DEF FundWithdraw
<1>3. CASE fund' = [fund EXCEPT !.withdrawn = @ + amount, !.eth = @ - amount]
  <2> DEFINE left == fund.eth - amount
             out == fund.withdrawn + amount
  <2>1. left \in Nat /\ out \in Nat /\ fund.pendingTotal <= left
    BY <1>1, <1>2
  <2>2. fund' = [fund EXCEPT !.withdrawn = out, !.eth = left]
    BY <1>3, Zenon
  <2> HIDE DEF left, out
  <2> QED BY <2>1, <2>2, Zenon DEF FInv
<1>4. CASE fund' = [fund EXCEPT !.withdrawn = @ + amount, !.pendingTotal = @ + amount,
                                !.pending[to] = @ + amount]
  <2> DEFINE owed == fund.pendingTotal + amount
             out == fund.withdrawn + amount
             table == [fund.pending EXCEPT ![to] = fund.pending[to] + amount]
  <2>1. owed \in Nat /\ out \in Nat /\ owed <= fund.eth
    BY <1>1, <1>2
  <2>2. fund' = [fund EXCEPT !.withdrawn = out, !.pendingTotal = owed, !.pending = table]
    BY <1>4, Zenon
  <2>3. /\ table \in [Payees -> Nat] /\ fund.pending[to] \in Nat
        /\ table[to] = fund.pending[to] + amount
        /\ \A y \in Payees \ {to} : table[y] = fund.pending[y]
    BY <1>1
  <2> HIDE DEF table
  <2>4. Total(table) = owed
    <3>1. /\ Total(fund.pending) \in Nat
          /\ Total(table) = Total(fund.pending) - fund.pending[to] + table[to]
      BY <1>1, <2>3, PaymentTotalChanges, Zenon
    <3>2. fund.pendingTotal = Total(fund.pending)
      BY Zenon DEF FInv
    <3> QED BY <1>1, <2>3, <3>1, <3>2
  <2> HIDE DEF owed, out
  <2> QED BY <2>1, <2>2, <2>3, <2>4, Zenon DEF FInv
<1> QED BY <1>3, <1>4, Zenon DEF FundWithdraw

\* What is owed leaves the fund with the debt.
LEMMA FundPaymentKeepsFInv ==
  ASSUME Deployment, FInv, NEW a \in Payees, FundWithdrawPayments(a)
  PROVE  FInv'
<1> DEFINE p == fund.pending[a]
           left == fund.eth - p
           owed == fund.pendingTotal - p
           table == [fund.pending EXCEPT ![a] = 0]
<1>1. /\ fund.eth \in Nat /\ fund.pendingTotal \in Nat /\ fund.pending \in [Payees -> Nat]
      /\ fund.pendingTotal = Total(fund.pending) /\ fund.pendingTotal <= fund.eth
      /\ p \in Nat
  BY Zenon DEF FInv
<1>2. fund' = [fund EXCEPT !.eth = left, !.pendingTotal = owed, !.pending = table]
  BY Zenon DEF FundWithdrawPayments
<1>3. /\ table \in [Payees -> Nat] /\ table[a] = 0
      /\ \A y \in Payees \ {a} : table[y] = fund.pending[y]
  BY <1>1, Zenon
<1> HIDE DEF table
<1>4. p <= fund.pendingTotal /\ Total(table) = owed
  <2>1. /\ fund.pending[a] <= Total(fund.pending)
        /\ Total(table) = Total(fund.pending) - fund.pending[a] + table[a]
    BY <1>1, <1>3, PaymentTotalChanges, Zenon
  <2> QED BY <1>1, <1>3, <2>1
<1>5. left \in Nat /\ owed \in Nat /\ owed <= left
  BY <1>1, <1>4
<1> HIDE DEF left, owed
<1> QED BY <1>2, <1>3, <1>4, <1>5, Zenon DEF FInv

\* Every transaction keeps both ledgers.
LEMMA NextKeepsLedgers ==
  ASSUME Deployment, RInv, FInv, [Next]_vars
  PROVE  RInv' /\ FInv'
<1>1. LInv'
  BY NextKeepsLInv, Zenon DEF Deployment, RInv
<1>2. ASSUME UNCHANGED fund PROVE FInv'
  BY <1>2, Zenon DEF FInv
<1>3. ASSUME UNCHANGED <<validators, active, pending, eth>> PROVE RInv'
  BY <1>1, <1>3, Zenon DEF RInv, StakeTable
<1>4. ASSUME NEW a \in Operators, NEW n \in NodeIds, NEW amount \in Stakes, Stake(a, n, amount)
      PROVE  RInv' /\ FInv'
  BY <1>1, <1>2, <1>4, StakeKeepsRInv, Zenon DEF Stake
<1>5. ASSUME NEW n \in NodeIds, RequestUnstake(n) PROVE RInv' /\ FInv'
  BY <1>1, <1>2, <1>5, RequestKeepsRInv, Zenon DEF RequestUnstake
<1>6. ASSUME NEW n \in NodeIds, WithdrawStake(n) PROVE RInv' /\ FInv'
  BY <1>1, <1>2, <1>6, WithdrawKeepsRInv, Zenon DEF WithdrawStake
<1>7. ASSUME NEW n \in NodeIds, SlashByAdmin(n) PROVE RInv' /\ FInv'
  BY <1>1, <1>7, SlashKeepsRInv, Zenon DEF SlashByAdmin
<1>8. ASSUME NEW ev \in Evidence, SubmitEvidence(ev) PROVE RInv' /\ FInv'
  BY <1>1, <1>8, SlashKeepsRInv, Zenon DEF SubmitEvidence, Deployment
<1>9. ASSUME NEW a \in Payees, WithdrawPayments(a) PROVE RInv' /\ FInv'
  BY <1>1, <1>2, <1>9, PaymentKeepsRInv, Zenon DEF WithdrawPayments
<1>10. ASSUME NEW a \in Payees, FundWithdrawPayments(a) PROVE RInv' /\ FInv'
  BY <1>3, <1>10, FundPaymentKeepsFInv, Zenon DEF FundWithdrawPayments, registry
<1>11. ASSUME NEW a \in Operators, NEW amount \in Withdrawals, FundWithdraw(a, amount)
       PROVE  RInv' /\ FInv'
  BY <1>3, <1>11, FundWithdrawKeepsFInv, Zenon DEF FundWithdraw, registry
<1>12. ASSUME NEW x, SetSlasher(x) \/ SetInsuranceFund(x) \/ SetSlashCooldown(x) \/ Tick
       PROVE  RInv' /\ FInv'
  BY <1>2, <1>3, <1>12, Zenon DEF SetSlasher, SetInsuranceFund, SetSlashCooldown, Tick, registry
<1>13. CASE UNCHANGED vars
  BY <1>2, <1>3, <1>13, Zenon DEF vars
<1> QED
  BY <1>4, <1>5, <1>6, <1>7, <1>8, <1>9, <1>10, <1>11, <1>12, <1>13, Zenon DEF Next

\* For any number of validators, any stakes and any order of refused payments, the list
\* of active validators is exact, ValidatorRegistry.sol holds exactly what it owes, and
\* InsuranceFund.sol can pay whoever was refused.
THEOREM RegistryIsExactThm ==
  ASSUME Deployment
  PROVE  Spec => []RegistryIsExact
<1>1. Init => RInv /\ FInv
  <2> SUFFICES ASSUME Init PROVE RInv /\ FInv
    BY Zenon
  <2>1. LInv
    BY DEF Init, LInv, Entry, NoEntry, Distinct
  <2>2. Total(StakeTable) = 0
    BY TotalOfZeros, Zenon DEF Init, StakeTable, NoEntry
  <2>3. Total(pending) = 0 /\ Total(fund.pending) = 0
    BY TotalOfZeros, Zenon DEF Init
  <2>4. RInv
    BY <2>1, <2>2, <2>3 DEF RInv, Init, NoEntry, Deployment
  <2>5. FInv
    BY <2>3 DEF FInv, Init
  <2> QED BY <2>4, <2>5, Zenon
<1>2. RInv /\ FInv /\ [Next]_vars => RInv' /\ FInv'
  BY NextKeepsLedgers, Zenon
<1>3. RInv /\ FInv => RegistryIsExact
  <2> SUFFICES ASSUME RInv, FInv PROVE RegistryIsExact
    BY Zenon
  <2>1. Range(active) = {n \in NodeIds : validators[n].active}
    BY DEF RInv, LInv, Range
  <2>2. Len(active) = Cardinality(Range(active))
    BY LenIsCardinality, Zenon DEF RInv, LInv
  <2> QED BY <2>1, <2>2, Zenon DEF RegistryIsExact, ActiveListIsExact, MoneyIsCovered, RInv, LInv, FInv, Entry
<1> QED
  BY <1>1, <1>2, <1>3, PTL DEF Spec
==============================================================================
