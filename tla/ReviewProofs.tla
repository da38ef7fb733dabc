---------------------------- MODULE ReviewProofs ----------------------------
(***************************************************************************)
(* Proofs about Review.                                                    *)
(***************************************************************************)
EXTENDS Review, TLAPS

\* A thread that is about to consume has a plan that an independent reviewer
\* made of a saved proposal; so does every plan row.
ReviewsSound ==
  \A r \in Reviewing : review[r] # Idle =>
    /\ review[r].plan.reviewed_by # review[r].plan.requested_by
    /\ <<review[r].id, review[r].digest>> \in saved

ReviewInv == ReviewTypeOK /\ ReviewsSound /\ IndependentlyReviewed /\ ApprovalsStand

\* The empty tables satisfy the invariant.
LEMMA InitReview == Init => ReviewInv
BY DEF Init, ReviewInv, ReviewTypeOK, ReviewsSound, IndependentlyReviewed,
       ApprovalsStand

\* A thread that handles a review has the fields of one.
LEMMA Handling ==
  ASSUME ReviewTypeOK, NEW r \in Reviewing, review[r] # Idle
  PROVE  review[r] \in Consuming
BY DEF ReviewTypeOK

\* Every step of every thread preserves it.
LEMMA StepReview == ReviewInv /\ [Next]_vars => ReviewInv'
<1> SUFFICES ASSUME ReviewInv, [Next]_vars PROVE ReviewInv'
  OBVIOUS
<1> USE DEF ReviewInv
<1>1. ASSUME NEW id \in Plans, NEW proposal \in Proposal,
             ProposePlan(id, proposal)
      PROVE  ReviewInv'
  BY <1>1 DEF ProposePlan, ReviewTypeOK, ReviewsSound, IndependentlyReviewed,
              ApprovalsStand, Proposal
<1>2. ASSUME NEW r \in Reviewing, NEW reviewer \in Principals, NEW s \in saved,
             ReadProposal(r, s[1], reviewer, s[2])
      PROVE  ReviewInv'
  <2> DEFINE v == [pc |-> "consume", id |-> s[1], digest |-> s[2],
                   plan |-> [content |-> s[2].content,
                             requested_by |-> s[2].requested_by,
                             reviewed_by |-> reviewer]]
  <2>1. s[1] \in Plans /\ s[2] \in Proposal /\ <<s[1], s[2]>> \in saved
    BY <1>2 DEF ReviewTypeOK, ReadProposal
  <2>2. v \in Consuming /\ v.plan.reviewed_by # v.plan.requested_by
    BY <1>2, <2>1 DEF ReadProposal, Consuming, Plan, Proposal
  <2>3. /\ review' = [review EXCEPT ![r] = v]
        /\ UNCHANGED <<proposals, plans, saved, approved>>
    BY <1>2 DEF ReadProposal
  <2>4. ReviewTypeOK'
    BY <2>1, <2>2, <2>3 DEF ReviewTypeOK
  <2>5. ReviewsSound'
    BY <2>1, <2>2, <2>3 DEF ReviewTypeOK, ReviewsSound
  <2> QED
    BY <2>3, <2>4, <2>5 DEF IndependentlyReviewed, ApprovalsStand
<1>3. ASSUME NEW r \in Reviewing, Consume(r)
      PROVE  ReviewInv'
  <2> DEFINE v == review[r]
  <2>1. v \in Consuming /\ v # Idle
    BY <1>3, Handling DEF Consume
  <2>2. v.id \in Plans /\ v.digest \in Proposal /\ v.plan \in Plan
    BY <2>1 DEF Consuming
  <2>3. /\ plans[v.id] \in {NoRow, v.plan}
        /\ plans' = [plans EXCEPT ![v.id] = v.plan]
        /\ proposals' = [proposals EXCEPT ![v.id] = NoRow]
        /\ approved' = approved \cup {<<v.id, v.plan>>}
        /\ review' = [review EXCEPT ![r] = Idle]
        /\ saved' = saved
    BY <1>3 DEF Consume, CanConsume
  <2>4. ReviewTypeOK'
    BY <2>2, <2>3 DEF ReviewTypeOK
  <2>5. ReviewsSound'
    BY <2>3 DEF ReviewTypeOK, ReviewsSound
  <2>6. IndependentlyReviewed'
    <3>1. /\ v.plan.reviewed_by # v.plan.requested_by
          /\ v.digest = [content |-> v.plan.content,
                         requested_by |-> v.plan.requested_by]
          /\ <<v.id, v.digest>> \in saved
      BY <2>1, <2>2 DEF ReviewTypeOK, ReviewsSound, Proposal
    <3> QED
      BY <2>2, <2>3, <3>1 DEF IndependentlyReviewed, ReviewTypeOK
  <2>7. ApprovalsStand'
    <3>1. ASSUME NEW a \in approved PROVE plans'[a[1]] = a[2]
      <4>1. a[1] \in Plans /\ a[2] \in Plan /\ plans[a[1]] = a[2]
        BY DEF ApprovalsStand, ReviewTypeOK
      <4>2. a[2] # NoRow
        BY <4>1, ReviewParameters DEF Plan
      <4> QED
        BY <2>2, <2>3, <4>1, <4>2 DEF ReviewTypeOK
    <3> QED
      BY <2>2, <2>3, <3>1 DEF ApprovalsStand, ReviewTypeOK
  <2> QED
    BY <2>4, <2>5, <2>6, <2>7
<1>4. ASSUME NEW r \in Reviewing, GiveUp(r)
      PROVE  ReviewInv'
  BY <1>4 DEF GiveUp, ReviewTypeOK, ReviewsSound, IndependentlyReviewed,
              ApprovalsStand
<1>5. CASE UNCHANGED vars
  BY <1>5 DEF vars, ReviewTypeOK, ReviewsSound, IndependentlyReviewed,
              ApprovalsStand
<1> QED
  BY <1>1, <1>2, <1>3, <1>4, <1>5 DEF Next

\* ReviewInv is an invariant.
LEMMA ReviewInvariant == Spec => []ReviewInv
BY InitReview, StepReview, PTL DEF Spec

\* What a reviewer was told to be reviewed is the plan for ever.
THEOREM ApprovalsStay == Spec => []ApprovalsStand
BY ReviewInvariant, PTL DEF ReviewInv

\* Every plan was approved by somebody other than its requester, and is a
\* proposal that was saved under its id.
THEOREM ReviewIsIndependent == Spec => []IndependentlyReviewed
BY ReviewInvariant, PTL DEF ReviewInv

=============================================================================
