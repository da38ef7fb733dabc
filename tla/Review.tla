------------------------------- MODULE Review -------------------------------
(***************************************************************************)
(* Proposals and their review (store/mod.rs, supervisor/mod.rs): an agent  *)
(* saves a proposal under a plan id; a reviewer who saw it approves the    *)
(* digest that he saw.  review_proposal reads the proposal in one store    *)
(* call and consumes it in another, and anything can come between them.    *)
(*                                                                         *)
(* A digest stands for the content it digests.  A reviewed plan is its     *)
(* content, its requester and its reviewer.                                *)
(***************************************************************************)
EXTENDS Naturals

CONSTANTS
  Plans,       \* plan ids
  Contents,    \* everything in a proposal but its id and requester
  Principals,  \* agents and reviewers; a role is checked at each request
  Reviewing,   \* threads that handle review requests
  NoRow        \* the absence of a row

ASSUME ReviewParameters ==
  NoRow \notin [content : Contents, requested_by : Principals]
    \cup [content : Contents, requested_by : Principals, reviewed_by : Principals]

VARIABLES
  proposals,  \* plan id -> its proposal
  plans,      \* plan id -> the reviewed plan
  saved,      \* the proposals ever saved: a reviewer approves what he was shown
  review,     \* thread -> the review it handles
  approved    \* replies to reviewers: the plans they were told are reviewed

vars == <<proposals, plans, saved, review, approved>>

Proposal == [content : Contents, requested_by : Principals]
Plan == [content : Contents, requested_by : Principals, reviewed_by : Principals]

\* A thread that has read the proposal, and the plan it made of it.
Idle == [pc |-> "idle"]
Consuming == [pc : {"consume"}, id : Plans, digest : Proposal, plan : Plan]

\* Shapes of the tables and of the reviews, whose plan is that of the digest.
ReviewTypeOK ==
  /\ proposals \in [Plans -> Proposal \cup {NoRow}]
  /\ plans \in [Plans -> Plan \cup {NoRow}]
  /\ saved \subseteq Plans \X Proposal
  /\ review \in [Reviewing -> Consuming \cup {Idle}]
  /\ \A r \in Reviewing : review[r] # Idle =>
       /\ review[r].plan.content = review[r].digest.content
       /\ review[r].plan.requested_by = review[r].digest.requested_by
  /\ approved \subseteq Plans \X Plan

Init ==
  /\ proposals = [id \in Plans |-> NoRow]
  /\ plans = [id \in Plans |-> NoRow]
  /\ saved = {}
  /\ review = [r \in Reviewing |-> Idle]
  /\ approved = {}

\* Of a saved proposal of the same id nothing changes: the same proposal is
\* accepted again, another one refused.
ProposePlan(id, proposal) ==
  /\ proposals[id] \in {NoRow, proposal}
  /\ proposals' = [proposals EXCEPT ![id] = proposal]
  /\ saved' = saved \cup {<<id, proposal>>}
  /\ UNCHANGED <<plans, review, approved>>

ReadProposalBug(r, id, reviewer, digest) ==
  /\ review[r] = Idle
  /\ <<id, digest>> \in saved
  /\ proposals[id] # NoRow
  /\ proposals[id] = digest
  /\ review' = [review EXCEPT ![r] =
       [pc |-> "consume", id |-> id, digest |-> digest,
        plan |-> [content |-> digest.content,
                  requested_by |-> digest.requested_by,
                  reviewed_by |-> reviewer]]]
  /\ UNCHANGED <<proposals, plans, saved, approved>>

\* review_proposal up to its transaction.
ReadProposal(r, id, reviewer, digest) ==
  /\ review[r] = Idle
  /\ <<id, digest>> \in saved
  /\ proposals[id] # NoRow
  /\ reviewer # proposals[id].requested_by
  /\ proposals[id] = digest
  /\ review' = [review EXCEPT ![r] =
       [pc |-> "consume", id |-> id, digest |-> digest,
        plan |-> [content |-> digest.content,
                  requested_by |-> digest.requested_by,
                  reviewed_by |-> reviewer]]]
  /\ UNCHANGED <<proposals, plans, saved, approved>>

CanConsumeBug(id, digest, plan) == proposals[id] = digest

\* consume_reviewed_proposal commits: the proposal is still the one that was
\* read, and a plan of that id is the same plan.
CanConsume(id, digest, plan) ==
  proposals[id] = digest /\ plans[id] \in {NoRow, plan}

Consume(r) ==
  LET v == review[r] IN
  /\ v # Idle
  /\ CanConsume(v.id, v.digest, v.plan)
  /\ plans' = [plans EXCEPT ![v.id] = v.plan]
  /\ proposals' = [proposals EXCEPT ![v.id] = NoRow]
  /\ approved' = approved \cup {<<v.id, v.plan>>}
  /\ review' = [review EXCEPT ![r] = Idle]
  /\ UNCHANGED saved

\* The transaction is refused, or the daemon dies and the tables remain.
GiveUp(r) ==
  /\ review[r] # Idle
  /\ review' = [review EXCEPT ![r] = Idle]
  /\ UNCHANGED <<proposals, plans, saved, approved>>

Next ==
  \/ \E id \in Plans, proposal \in Proposal : ProposePlan(id, proposal)
  \/ \E r \in Reviewing :
       \/ \E reviewer \in Principals :
            \E s \in saved : ReadProposal(r, s[1], reviewer, s[2])
       \/ Consume(r) \/ GiveUp(r)

Spec == Init /\ [][Next]_vars

-----------------------------------------------------------------------------
(* Properties *)

\* What was told a reviewer to be reviewed is the plan, for ever: no second
\* review, by another reviewer or of a proposal saved again under the id,
\* replaces it.  (consume_reviewed_proposal)
ApprovalsStand == \A a \in approved : plans[a[1]] = a[2]

\* A plan is a proposal that was saved under its id, and somebody other than
\* its requester approved exactly that.  (review_proposal)
IndependentlyReviewed ==
  \A id \in Plans : plans[id] # NoRow =>
    /\ plans[id].reviewed_by # plans[id].requested_by
    /\ <<id, [content |-> plans[id].content,
              requested_by |-> plans[id].requested_by]>> \in saved

=============================================================================
