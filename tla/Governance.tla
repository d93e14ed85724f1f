----------------------------- MODULE Governance ------------------------------
(***************************************************************************)
(* contracts/contracts-src/governance: FactionRegistry, GovernanceDAO and  *)
(* Treasury, composed: a proposal of the DAO, once it is executed, lifts   *)
(* the spending cap for one withdrawal of the treasury.  One action per    *)
(* external function; a call that reverts is not a step.  Tallies are read *)
(* off the votes, since the faction of an account never changes.           *)
(***************************************************************************)
EXTENDS Naturals, Sequences, FiniteSets, FiniteSetsExt

CONSTANTS Accounts, Params,          \* [period, delay, quorum, approval, bicameral]
          Candidates, Threshold,      \* who may be a signer; REQUIRED_CONFIRMATIONS
          Signers0, Cap, Amounts, Deposits,  \* the first signers, SPENDING_CAP_BPS
          MaxProposals, MaxWithdrawals, MaxTime

VARIABLES faction, verified, params, proposals,
          signers, withdrawals, balance, pending, now

registry == <<faction, verified>>
treasury == <<signers, withdrawals, balance, pending>>
vars == <<registry, params, proposals, treasury, now>>

Init ==
  /\ faction = [a \in Accounts |-> "None"] /\ verified = {}
  /\ params \in Params /\ proposals = <<>>
  /\ signers = Signers0 /\ withdrawals = <<>> /\ balance \in Deposits /\ pending = 0 /\ now = 0

(***************************************************************************)
(* FactionRegistry.                                                        *)
(***************************************************************************)
RegisterHuman(a) ==
  /\ faction[a] = "None" /\ faction' = [faction EXCEPT ![a] = "Human"]
  /\ UNCHANGED <<verified, params, proposals, treasury, now>>

RegisterClaw(a) ==
  /\ faction[a] = "None" /\ faction' = [faction EXCEPT ![a] = "Claw"]
  /\ UNCHANGED <<verified, params, proposals, treasury, now>>

Verify(a) ==
  /\ faction[a] # "None" /\ a \notin verified /\ verified' = verified \cup {a}
  /\ UNCHANGED <<faction, params, proposals, treasury, now>>

Members(f) == {a \in Accounts : faction[a] = f}

(***************************************************************************)
(* GovernanceDAO.                                                          *)
(***************************************************************************)
CreateProposal(a, target) ==
  /\ a \in verified /\ Len(proposals) < MaxProposals
  /\ proposals' = Append(proposals,
       [target |-> target, human |-> Cardinality(Members("Human")), claw |-> Cardinality(Members("Claw")),
        deadline |-> now + params.period, ready |-> 0, votes |-> [v \in Accounts |-> "none"],
        state |-> "Pending", closed |-> 0])
  /\ UNCHANGED <<registry, params, treasury, now>>

Vote(a, i, support) ==
  /\ a \in verified /\ proposals[i].state = "Pending" /\ now <= proposals[i].deadline
  /\ proposals[i].votes[a] = "none"
  /\ proposals' = [proposals EXCEPT ![i].votes[a] = support]
  /\ UNCHANGED <<registry, params, treasury, now>>

Count(p, f, support) == Cardinality({a \in Members(f) : p.votes[a] = support})
Total(p) == Cardinality({a \in Accounts : p.votes[a] # "none"})

QuorumReached(p) == p.human + p.claw = 0 \/ (Total(p) * 100) \div (p.human + p.claw) >= params.quorum

\* A plausible slip: a chamber that stays silent approves.
SilentApproves(p, f, there) ==
  LET pro == Count(p, f, "for") contra == Count(p, f, "against") IN
  pro + contra = 0 \/ (pro * 100) \div (pro + contra) >= params.approval

Approves(p, f, there) ==
  LET pro == Count(p, f, "for") contra == Count(p, f, "against") IN
  there = 0 \/ (pro + contra > 0 /\ (pro * 100) \div (pro + contra) >= params.approval)

Majority(p) ==
  LET pro == Count(p, "Human", "for") + Count(p, "Claw", "for")
      contra == Count(p, "Human", "against") + Count(p, "Claw", "against")
  IN pro + contra > 0 /\ (pro * 100) \div (pro + contra) >= params.approval

IsApproved(p) ==
  /\ QuorumReached(p)
  /\ IF params.bicameral THEN Approves(p, "Human", p.human) /\ Approves(p, "Claw", p.claw) ELSE Majority(p)

Queue(i) ==
  /\ proposals[i].state = "Pending" /\ now > proposals[i].deadline
  /\ proposals' = [proposals EXCEPT ![i] =
       IF IsApproved(@) THEN [@ EXCEPT !.state = "Queued", !.ready = now + params.delay, !.closed = now]
       ELSE [@ EXCEPT !.state = "Rejected"]]
  /\ UNCHANGED <<registry, params, treasury, now>>

\* The call of the proposal is governanceApprove of the treasury; when it
\* reverts, so does execute.
Execute(i) ==
  /\ proposals[i].state = "Queued" /\ now >= proposals[i].ready
  /\ proposals[i].target \in DOMAIN withdrawals
  /\ proposals' = [proposals EXCEPT ![i].state = "Executed"]
  /\ withdrawals' = [withdrawals EXCEPT ![proposals[i].target].approved = TRUE]
  /\ UNCHANGED <<registry, params, signers, balance, pending, now>>

Cancel(i) ==
  /\ proposals[i].state \in {"Pending", "Queued"}
  /\ proposals' = [proposals EXCEPT ![i].state = "Cancelled"]
  /\ UNCHANGED <<registry, params, treasury, now>>

\* setVotingPeriod, setTimelockDelay, setQuorumPercent, setApprovalPercent, setBicameralEnabled
SetParameters(p) ==
  /\ params # p /\ params' = p
  /\ UNCHANGED <<registry, proposals, treasury, now>>

(***************************************************************************)
(* Treasury.                                                               *)
(***************************************************************************)
AvailableBalance == IF balance > pending THEN balance - pending ELSE 0

ProposeWithdrawal(s, amount) ==
  /\ s \in signers /\ Len(withdrawals) < MaxWithdrawals /\ amount <= AvailableBalance
  /\ withdrawals' = Append(withdrawals,
       [amount |-> amount, confirmed |-> {s}, executed |-> FALSE, approved |-> FALSE])
  /\ UNCHANGED <<registry, params, proposals, signers, balance, pending, now>>

ConfirmWithdrawal(s, i) ==
  /\ s \in signers /\ ~withdrawals[i].executed /\ s \notin withdrawals[i].confirmed
  /\ withdrawals' = [withdrawals EXCEPT ![i].confirmed = @ \cup {s}]
  /\ UNCHANGED <<registry, params, proposals, signers, balance, pending, now>>

CurrentConfirmations(w) == Cardinality(w.confirmed \cap signers)

\* The amount leaves the contract, or is credited to the receiver who refused it.
ExecuteWithdrawal(s, i, accepts) ==
  LET w == withdrawals[i] IN
  /\ s \in signers /\ ~w.executed /\ CurrentConfirmations(w) >= Threshold
  /\ w.amount <= AvailableBalance
  /\ w.amount > (AvailableBalance * Cap) \div 10000 => w.approved
  /\ withdrawals' = [withdrawals EXCEPT ![i].executed = TRUE]
  /\ IF accepts THEN balance' = balance - w.amount /\ UNCHANGED pending
     ELSE pending' = pending + w.amount /\ UNCHANGED balance
  /\ UNCHANGED <<registry, params, proposals, signers, now>>

ReplaceSigner(old, new) ==
  /\ old \in signers /\ new \notin signers
  /\ signers' = (signers \ {old}) \cup {new}
  /\ UNCHANGED <<registry, params, proposals, withdrawals, balance, pending, now>>

WithdrawPayments ==
  /\ pending > 0 /\ balance' = balance - pending /\ pending' = 0
  /\ UNCHANGED <<registry, params, proposals, signers, withdrawals, now>>

Tick == now < MaxTime /\ now' = now + 1 /\ UNCHANGED <<registry, params, proposals, treasury>>

Next ==
  \/ \E a \in Accounts :
       \/ RegisterHuman(a) \/ RegisterClaw(a) \/ Verify(a)
       \/ \E t \in 1 .. MaxWithdrawals : CreateProposal(a, t)
       \/ \E i \in DOMAIN proposals, v \in {"for", "against", "abstain"} : Vote(a, i, v)
  \/ \E i \in DOMAIN proposals : Queue(i) \/ Execute(i) \/ Cancel(i)
  \/ \E p \in Params : SetParameters(p)
  \/ \E s \in signers, n \in Amounts : ProposeWithdrawal(s, n)
  \/ \E s \in signers, i \in DOMAIN withdrawals :
       ConfirmWithdrawal(s, i) \/ \E accepts \in BOOLEAN : ExecuteWithdrawal(s, i, accepts)
  \/ \E old \in signers, new \in Candidates : ReplaceSigner(old, new)
  \/ WithdrawPayments \/ Tick

Spec == Init /\ [][Next]_vars
------------------------------------------------------------------------------
(***************************************************************************)
(* Money leaves the treasury, or is promised, only for a withdrawal that   *)
(* enough of the present signers confirmed, once; and an amount above the  *)
(* cap only after a proposal of the DAO for just this withdrawal went      *)
(* through its vote and its time lock.                                     *)
(***************************************************************************)
PaysAuthorised ==
  \A i \in DOMAIN withdrawals :
    LET w == withdrawals[i] IN
    /\ w.executed => withdrawals'[i].executed
    /\ ~w.executed /\ withdrawals'[i].executed =>
         /\ Cardinality({s \in signers : s \in w.confirmed}) >= Threshold
         /\ \/ w.amount * 10000 <= (balance - pending) * Cap
            \/ \E p \in DOMAIN proposals :
                 /\ proposals[p].target = i /\ proposals[p].state = "Executed"
                 /\ proposals[p].closed > proposals[p].deadline /\ now >= proposals[p].ready
PaymentsAreAuthorised == [][PaysAuthorised]_vars

(***************************************************************************)
(* A proposal is queued only when every chamber that had members at its    *)
(* creation has spoken for it, as long as the two chambers decide.         *)
(***************************************************************************)
QueuesTheSpoken ==
  \A i \in DOMAIN proposals :
    proposals[i].state = "Pending" /\ proposals'[i].state = "Queued" /\ params.bicameral =>
      \A f \in {"Human", "Claw"} :
        (IF f = "Human" THEN proposals[i].human ELSE proposals[i].claw) > 0 =>
          \E a \in Accounts : faction[a] = f /\ proposals[i].votes[a] = "for"
ChambersHaveSpoken == [][QueuesTheSpoken]_vars

(***************************************************************************)
(* What was promised to receivers who refused a payment is always there.   *)
(***************************************************************************)
TreasuryHoldsWhatItOwes == balance >= pending
==============================================================================
