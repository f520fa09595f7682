--------------------------- MODULE ServicesProofs ---------------------------
(***************************************************************************)
(* Theorems about Services: for any users, recipients, devices, areas,     *)
(* limits and stocks, and any number of calls at once.                     *)
(***************************************************************************)
EXTENDS Services, Sums, TLAPS

\* Offers has its own copy of the operators of FiniteSets.
LEMMA SameSizes ==
    /\ \A X : F!IsFiniteSet(X) <=> IsFiniteSet(X)
    /\ \A X : F!Cardinality(X) = Cardinality(X)
  <1>1. ASSUME NEW X PROVE F!IsFiniteSet(X) <=> IsFiniteSet(X)
    BY DEF F!IsFiniteSet, IsFiniteSet
  <1>2. ASSUME NEW X PROVE F!Cardinality(X) = Cardinality(X)
    BY DEF F!Cardinality, Cardinality
  <1> QED
    BY <1>1, <1>2

-----------------------------------------------------------------------------
(* Referrals: a referral is paid out once.                                 *)

ReferralStatuses == {"NONE", "QUALIFIED", "PAID"}

\* The posting of a user's payout, whichever call makes it.
Posting(u) == [of |-> u, by |-> None]
Redeemers == {u \in Users : referral[u] # "NONE"}

\* The points of a call: those no payout depends on, and the others.
OtherPcs == {"idle", "total", "user", "redeem", "claim", "take", "pay", "reserve", "release"}
TaskRecords == [pc : OtherPcs \cup {"refer", "accrue", "payouts", "paid"},
                u : Users \cup {None}, todo : SUBSET Users]

\* What a call knows at its next step, of the redeemers and the postings: whom
\* it refers, whom it still has to pay, and that the one it marks was paid.
Knows(k, redeemers, posted) ==
    /\ k.pc \in {"refer", "accrue"} => k.u \in Users
    /\ k.pc \in {"payouts", "paid"} => k.todo \subseteq redeemers
    /\ k.pc = "paid" => k.u \in redeemers /\ Posting(k.u) \in posted

PayoutInv ==
    /\ referral \in [Users -> ReferralStatuses]
    /\ payouts \subseteq {Posting(u) : u \in Redeemers}
    /\ \A u \in Users : referral[u] = "PAID" => Posting(u) \in payouts
    /\ offerTask \in [Tasks -> TaskRecords]
    /\ \A t \in Tasks : Knows(offerTask[t], Redeemers, payouts)

\* A reference names one user.
LEMMA PostingsDiffer ==
    ASSUME NEW u, NEW w
    PROVE  Posting(u).of = u /\ (Posting(u) = Posting(w) => u = w)
  <1>1. Posting(u).of = u /\ Posting(w).of = w
    BY DEF Posting
  <1> QED
    BY <1>1

LEMMA IdleKnows ==
    /\ F!Idle \in TaskRecords
    /\ \A redeemers, posted : Knows(F!Idle, redeemers, posted)
  <1>1. F!Idle.pc = "idle" /\ F!Idle.u = None /\ F!Idle.todo = {}
    BY DEF F!Idle
  <1>2. F!Idle \in TaskRecords
    BY DEF F!Idle, TaskRecords, OtherPcs
  <1> QED
    BY <1>1, <1>2 DEF Knows

LEMMA PayoutInvInit == Init => PayoutInv
  <1> SUFFICES ASSUME F!Init PROVE PayoutInv
    BY DEF Init
  <1>1. \A t \in Tasks : offerTask[t] = F!Idle
    BY DEF F!Init
  <1> QED
    BY <1>1, IdleKnows DEF F!Init, PayoutInv, ReferralStatuses

\* What a call knows stays true: redemptions and postings are only added.
LEMMA KnownForGood ==
    ASSUME NEW k, NEW R, NEW S, NEW old, NEW new,
           R \subseteq S, old \subseteq new, Knows(k, R, old)
    PROVE  Knows(k, S, new)
  BY DEF Knows

\* A step that adds to redemptions and payouts, if anything, and brings one
\* call to a point where it knows what it must.
LEMMA OneCallMoves ==
    ASSUME PayoutInv, NEW t \in Tasks, NEW k \in TaskRecords,
           offerTask' = [offerTask EXCEPT ![t] = k],
           Redeemers \subseteq Redeemers', payouts \subseteq payouts',
           Knows(k, Redeemers', payouts')
    PROVE  /\ offerTask' \in [Tasks -> TaskRecords]
           /\ \A s \in Tasks : Knows(offerTask'[s], Redeemers', payouts')
  <1>1. offerTask \in [Tasks -> TaskRecords]
    BY DEF PayoutInv
  <1>2. ASSUME NEW s \in Tasks PROVE Knows(offerTask'[s], Redeemers', payouts')
    <2>1. CASE s = t
      BY <1>1, <2>1
    <2>2. CASE s # t
      <3>1. offerTask'[s] = offerTask[s] /\ Knows(offerTask[s], Redeemers, payouts)
        BY <1>1, <2>2 DEF PayoutInv
      <3> QED
        BY <3>1, KnownForGood
    <2> QED
      BY <2>1, <2>2
  <1> QED
    BY <1>1, <1>2

\* No action of the promo codes, the stations or the claims is about payouts.
LEMMA OtherCallMoves ==
    ASSUME PayoutInv, NEW t \in Tasks, UNCHANGED <<referral, payouts>>,
           NEW pc \in OtherPcs,
           \/ \E u \in Users : F!Call(t, pc, u, {})
           \/ F!Goto(t, pc)
           \/ F!Return(t)
    PROVE  PayoutInv'
  <1>1. offerTask \in [Tasks -> TaskRecords]
    BY DEF PayoutInv
  <1>2. PICK k \in TaskRecords : k.pc \in OtherPcs /\ offerTask' = [offerTask EXCEPT ![t] = k]
    <2>1. CASE \E u \in Users : F!Call(t, pc, u, {})
      <3>1. PICK u \in Users : F!Call(t, pc, u, {})
        BY <2>1
      <3>2. [pc |-> pc, u |-> u, todo |-> {}] \in TaskRecords
        BY DEF TaskRecords
      <3> QED
        BY <3>1, <3>2 DEF F!Call
    <2>2. CASE F!Goto(t, pc)
      <3> DEFINE k == [offerTask[t] EXCEPT !.pc = pc]
      <3>1. k \in TaskRecords /\ k.pc = pc
        BY <1>1 DEF TaskRecords
      <3>2. offerTask' = [offerTask EXCEPT ![t] = k]
        BY <2>2 DEF F!Goto
      <3> QED
        BY <3>1, <3>2
    <2>3. CASE F!Return(t)
      BY <2>3, IdleKnows DEF F!Return, F!Idle, OtherPcs
    <2> QED
      BY <2>1, <2>2, <2>3
  <1>3. Knows(k, Redeemers', payouts')
    BY <1>2 DEF Knows, OtherPcs
  <1>4. Redeemers' = Redeemers
    BY DEF Redeemers
  <1>5. /\ offerTask' \in [Tasks -> TaskRecords]
        /\ \A s \in Tasks : Knows(offerTask'[s], Redeemers', payouts')
    BY <1>2, <1>3, <1>4, OneCallMoves
  <1> QED
    BY <1>4, <1>5 DEF PayoutInv, Posting

LEMMA PromoKeeps ==
    ASSUME PayoutInv, NEW t \in Tasks, F!PromoNext(t)
    PROVE  PayoutInv'
  <1>1. ASSUME NEW u \in Users, F!Validate(t, u) PROVE PayoutInv'
    BY <1>1, OtherCallMoves DEF F!Validate, F!OnlyTask, F!partnerVars, OtherPcs
  <1>2. CASE F!CountTotal(t)
    BY <1>2, OtherCallMoves DEF F!CountTotal, F!OnlyTask, F!partnerVars, OtherPcs
  <1>3. CASE F!CountUser(t)
    BY <1>3, OtherCallMoves DEF F!CountUser, F!OnlyTask, F!partnerVars, OtherPcs
  <1>4. CASE F!Redeem(t)
    BY <1>4, OtherCallMoves DEF F!Redeem, F!partnerVars, OtherPcs
  <1> QED
    BY <1>1, <1>2, <1>3, <1>4 DEF F!PromoNext

LEMMA SwapKeeps ==
    ASSUME PayoutInv, NEW t \in Tasks, F!SwapNext(t)
    PROVE  PayoutInv'
  <1>1. ASSUME NEW u \in Users, F!Reserve(t, u) PROVE PayoutInv'
    BY <1>1, OtherCallMoves DEF F!Reserve, F!OnlyTask, F!partnerVars, OtherPcs
  <1>2. CASE F!Take(t)
    BY <1>2, OtherCallMoves DEF F!Take, F!partnerVars, OtherPcs
  <1>3. CASE F!Pay(t)
    BY <1>3, OtherCallMoves DEF F!Pay, F!OnlyTask, F!partnerVars, OtherPcs
  <1>4. CASE F!PayFails(t)
    BY <1>4, OtherCallMoves DEF F!PayFails, F!OnlyTask, F!partnerVars, OtherPcs
  <1>5. CASE F!Reserved(t)
    BY <1>5, OtherCallMoves DEF F!Reserved, F!partnerVars, OtherPcs
  <1>6. CASE F!Release(t)
    BY <1>6, OtherCallMoves DEF F!Release, F!partnerVars, OtherPcs
  <1> QED
    BY <1>1, <1>2, <1>3, <1>4, <1>5, <1>6 DEF F!SwapNext

LEMMA ClaimKeeps ==
    ASSUME PayoutInv, NEW t \in Tasks,
           (\E u \in Users : F!Claim(t, u)) \/ F!ClaimWrite(t) \/ F!Throw(t)
    PROVE  PayoutInv'
  <1>1. ASSUME NEW u \in Users, F!Claim(t, u) PROVE PayoutInv'
    BY <1>1, OtherCallMoves DEF F!Claim, F!OnlyTask, F!partnerVars, OtherPcs
  <1>2. CASE F!ClaimWrite(t)
    BY <1>2, OtherCallMoves DEF F!ClaimWrite, OtherPcs
  <1>3. CASE F!Throw(t)
    BY <1>3, OtherCallMoves DEF F!Throw, F!OnlyTask, F!partnerVars, OtherPcs
  <1> QED
    BY <1>1, <1>2, <1>3

LEMMA ReferKeeps ==
    ASSUME PayoutInv, NEW t \in Tasks, F!Refer(t)
    PROVE  PayoutInv'
  <1>1. PICK u \in Users : u = offerTask[t].u
    BY DEF PayoutInv, Knows, F!Refer, F!At
  <1>2. /\ referral[u] = "NONE"
        /\ referral' = [referral EXCEPT ![u] = "QUALIFIED"]
        /\ payouts' = payouts
    BY <1>1 DEF F!Refer
  <1>3. PICK k \in TaskRecords :
            k.pc = "accrue" /\ k.u = u /\ offerTask' = [offerTask EXCEPT ![t] = k]
    <2> DEFINE k == [offerTask[t] EXCEPT !.pc = "accrue"]
    <2>1. k \in TaskRecords /\ k.pc = "accrue" /\ k.u = u
      BY <1>1 DEF PayoutInv, TaskRecords
    <2>2. offerTask' = [offerTask EXCEPT ![t] = k]
      BY DEF F!Refer, F!Goto
    <2> QED
      BY <2>1, <2>2
  <1>4. referral' \in [Users -> ReferralStatuses] /\ Redeemers \subseteq Redeemers'
    BY <1>2 DEF PayoutInv, Redeemers, ReferralStatuses
  <1>5. \A w \in Users : referral'[w] = "PAID" => Posting(w) \in payouts'
    BY <1>2 DEF PayoutInv
  <1>6. payouts' \subseteq {Posting(w) : w \in Redeemers'}
    BY <1>2, <1>4 DEF PayoutInv
  <1>7. Knows(k, Redeemers', payouts')
    BY <1>3 DEF Knows
  <1>8. /\ offerTask' \in [Tasks -> TaskRecords]
        /\ \A s \in Tasks : Knows(offerTask'[s], Redeemers', payouts')
    BY <1>2, <1>3, <1>4, <1>7, OneCallMoves
  <1> QED
    BY <1>4, <1>5, <1>6, <1>8 DEF PayoutInv, Posting

LEMMA PayoutKeeps ==
    ASSUME PayoutInv, NEW t \in Tasks, NEW u \in Users, F!Payout(t, u)
    PROVE  PayoutInv'
  <1>1. offerTask[t] \in TaskRecords /\ offerTask[t].pc = "payouts" /\ u \in offerTask[t].todo
    BY DEF PayoutInv, F!Payout, F!At
  <1>2. offerTask[t].todo \subseteq Redeemers
    BY <1>1 DEF PayoutInv, Knows
  <1>3. referral' = referral /\ Redeemers' = Redeemers
    BY DEF F!Payout, Redeemers
  <1>4. payouts' = payouts \cup {Posting(u)}
    BY DEF F!Payout, F!PayoutRef, Posting
  <1>5. PICK k \in TaskRecords : /\ k.pc = "paid" /\ k.u = u /\ k.todo = offerTask[t].todo
                                 /\ offerTask' = [offerTask EXCEPT ![t] = k]
    <2> DEFINE k == [offerTask[t] EXCEPT !.pc = "paid", !.u = u]
    <2>1. k \in TaskRecords /\ k.pc = "paid" /\ k.u = u /\ k.todo = offerTask[t].todo
      BY <1>1 DEF TaskRecords
    <2>2. offerTask' = [offerTask EXCEPT ![t] = k]
      BY <1>1 DEF F!Payout
    <2> QED
      BY <2>1, <2>2
  <1>6. Knows(k, Redeemers', payouts')
    BY <1>1, <1>2, <1>3, <1>4, <1>5 DEF Knows
  <1>7. /\ offerTask' \in [Tasks -> TaskRecords]
        /\ \A s \in Tasks : Knows(offerTask'[s], Redeemers', payouts')
    BY <1>3, <1>4, <1>5, <1>6, OneCallMoves
  <1>8. payouts' \subseteq {Posting(w) : w \in Redeemers'}
    BY <1>1, <1>2, <1>3, <1>4 DEF PayoutInv
  <1> QED
    BY <1>3, <1>4, <1>7, <1>8 DEF PayoutInv, Posting

LEMMA MarkPaidKeeps ==
    ASSUME PayoutInv, NEW t \in Tasks, F!MarkPaid(t)
    PROVE  PayoutInv'
  <1>1. /\ offerTask[t] \in TaskRecords /\ offerTask[t].pc = "paid"
        /\ Knows(offerTask[t], Redeemers, payouts)
    BY DEF PayoutInv, F!MarkPaid, F!At
  <1>2. PICK u \in Users : u = offerTask[t].u /\ u \in Redeemers /\ Posting(u) \in payouts
    BY <1>1 DEF Knows, Redeemers
  <1>3. referral' = [referral EXCEPT ![u] = "PAID"] /\ payouts' = payouts
    BY <1>2 DEF F!MarkPaid
  <1>4. referral' \in [Users -> ReferralStatuses] /\ Redeemers' = Redeemers
    BY <1>2, <1>3 DEF PayoutInv, Redeemers, ReferralStatuses
  <1>5. \A w \in Users : referral'[w] = "PAID" => Posting(w) \in payouts'
    BY <1>2, <1>3 DEF PayoutInv
  <1>6. PICK k \in TaskRecords : /\ Knows(k, Redeemers, payouts)
                                 /\ offerTask' = [offerTask EXCEPT ![t] = k]
    <2> DEFINE rest == offerTask[t].todo \ {u}
               next == [pc |-> "payouts", u |-> None, todo |-> rest]
    <2>1. offerTask' = [offerTask EXCEPT ![t] = IF rest = {} THEN F!Idle ELSE next]
      BY <1>2 DEF F!MarkPaid
    <2>2. rest \subseteq Redeemers /\ rest \subseteq Users
      BY <1>1 DEF Knows, TaskRecords
    <2> HIDE DEF rest
    <2>3. next \in TaskRecords
      BY <2>2 DEF TaskRecords
    <2>4. Knows(next, Redeemers, payouts)
      BY <2>2 DEF Knows
    <2> HIDE DEF next
    <2> QED
      BY <2>1, <2>3, <2>4, IdleKnows
  <1>7. /\ offerTask' \in [Tasks -> TaskRecords]
        /\ \A s \in Tasks : Knows(offerTask'[s], Redeemers', payouts')
    BY <1>3, <1>4, <1>6, OneCallMoves
  <1> QED
    BY <1>3, <1>4, <1>5, <1>7 DEF PayoutInv, Posting

LEMMA CallsKeep ==
    ASSUME PayoutInv, NEW t \in Tasks,
           (\E u \in Users : F!RedeemCode(t, u)) \/ F!Accrue(t) \/ F!ProcessPayouts(t)
    PROVE  PayoutInv'
  <1>1. UNCHANGED <<referral, payouts>> /\ Redeemers' = Redeemers
    BY DEF F!RedeemCode, F!Accrue, F!ProcessPayouts, F!OnlyTask, F!partnerVars, Redeemers
  <1>2. PICK k \in TaskRecords : /\ Knows(k, Redeemers, payouts)
                                 /\ offerTask' = [offerTask EXCEPT ![t] = k]
    <2>1. ASSUME NEW u \in Users, F!RedeemCode(t, u)
          PROVE  \E k \in TaskRecords : /\ Knows(k, Redeemers, payouts)
                                         /\ offerTask' = [offerTask EXCEPT ![t] = k]
      <3> DEFINE k == [pc |-> "refer", u |-> u, todo |-> {}]
      <3>1. k \in TaskRecords
        BY DEF TaskRecords
      <3>2. Knows(k, Redeemers, payouts)
        BY DEF Knows
      <3> QED
        BY <2>1, <3>1, <3>2 DEF F!RedeemCode, F!Call
    <2>2. CASE F!Accrue(t)
      BY <2>2, IdleKnows DEF F!Accrue, F!Return
    <2>3. CASE F!ProcessPayouts(t)
      <3> DEFINE qualified == {u \in Users : referral[u] = "QUALIFIED"}
                 k == [pc |-> "payouts", u |-> None, todo |-> qualified]
      <3>1. offerTask' = [offerTask EXCEPT ![t] = k]
        BY <2>3 DEF F!ProcessPayouts, F!Call
      <3>2. qualified \subseteq Redeemers /\ qualified \subseteq Users
        BY DEF Redeemers
      <3> HIDE DEF qualified
      <3>3. k \in TaskRecords
        BY <3>2 DEF TaskRecords
      <3>4. Knows(k, Redeemers, payouts)
        BY <3>2 DEF Knows
      <3> QED
        BY <3>1, <3>3, <3>4
    <2> QED
      BY <2>1, <2>2, <2>3
  <1>3. /\ offerTask' \in [Tasks -> TaskRecords]
        /\ \A s \in Tasks : Knows(offerTask'[s], Redeemers', payouts')
    BY <1>1, <1>2, OneCallMoves
  <1> QED
    BY <1>1, <1>3 DEF PayoutInv, Posting

LEMMA PayoutInvNext ==
    ASSUME PayoutInv, [Next]_vars
    PROVE  PayoutInv'
  <1>1. ASSUME NEW t \in Tasks, F!PromoNext(t) \/ F!PartnerNext(t) \/ F!SwapNext(t) \/ F!Throw(t)
        PROVE  PayoutInv'
    <2>1. CASE F!PromoNext(t)
      BY <2>1, PromoKeeps
    <2>2. CASE F!SwapNext(t)
      BY <2>2, SwapKeeps
    <2>3. CASE F!Throw(t)
      BY <2>3, ClaimKeeps
    <2>4. CASE F!PartnerNext(t)
      BY <2>4, ReferKeeps, PayoutKeeps, MarkPaidKeeps, CallsKeep, ClaimKeeps DEF F!PartnerNext
    <2> QED
      BY <1>1, <2>1, <2>2, <2>3, <2>4
  <1>2. ASSUME NEW l \in Limits, NEW on \in BOOLEAN, F!UpdatePromo(l, on)
        PROVE  UNCHANGED <<referral, payouts, offerTask>>
    BY <1>2 DEF F!UpdatePromo, F!partnerVars
  <1>3. ASSUME NEW n \in 0 .. MaxStock, NEW on \in BOOLEAN, F!UpdateStation(n, on)
        PROVE  UNCHANGED <<referral, payouts, offerTask>>
    BY <1>3 DEF F!UpdateStation, F!partnerVars
  <1>4. ASSUME UNCHANGED offerVars
        PROVE  UNCHANGED <<referral, payouts, offerTask>>
    BY <1>4 DEF offerVars
  <1>5. CASE UNCHANGED <<referral, payouts, offerTask>>
    BY <1>5 DEF PayoutInv, Redeemers, Posting
  <1>6. CASE F!Next
    BY <1>1, <1>2, <1>3, <1>5, <1>6 DEF F!Next
  <1> QED
    BY <1>4, <1>5, <1>6 DEF Next, OffersStep, PricingStep, NoticesStep, TicketsStep, vars

LEMMA PayoutInvAlways == Spec => []PayoutInv
  BY PayoutInvInit, PayoutInvNext, PTL DEF Spec

\* However many payout runs overlap, stop or are repeated, a user's referral is
\* paid out at most once, and is PAID only if it was: the reference of the
\* posting is made from the redemption alone (processPayouts).
THEOREM PaidOutOnce == Spec => []PayoutOnce
  <1>1. PayoutInv => PayoutOnce
    <2> SUFFICES ASSUME PayoutInv, NEW u \in Users
                 PROVE  /\ Cardinality({p \in payouts : p.of = u}) <= 1
                        /\ referral[u] = "PAID" => {p \in payouts : p.of = u} # {}
                        /\ {p \in payouts : p.of = u} # {} => referral[u] # "NONE"
      BY SameSizes DEF PayoutOnce, F!PayoutOnce
    <2> DEFINE postings == {p \in payouts : p.of = u}
    <2>1. postings \subseteq {Posting(u)}
      BY PostingsDiffer DEF PayoutInv
    <2>2. Posting(u).of = u
      BY PostingsDiffer
    <2>3. Cardinality(postings) <= 1
      <3>1. IsFiniteSet({Posting(u)}) /\ Cardinality({Posting(u)}) = 1
        BY FS_Singleton
      <3>2. Cardinality(postings) <= Cardinality({Posting(u)})
        BY <2>1, <3>1, FS_Subset
      <3> QED
        BY <3>1, <3>2
    <2>4. referral[u] = "PAID" => postings # {}
      BY <2>2 DEF PayoutInv
    <2>5. ASSUME postings # {} PROVE referral[u] # "NONE"
      <3>1. Posting(u) \in payouts
        BY <2>1, <2>5
      <3>2. PICK w \in Redeemers : Posting(u) = Posting(w)
        BY <3>1 DEF PayoutInv
      <3>3. u = w
        BY <3>2, PostingsDiffer
      <3> QED
        BY <3>2, <3>3 DEF Redeemers
    <2> QED
      BY <2>3, <2>4, <2>5
  <1> QED
    BY <1>1, PayoutInvAlways, PTL

-----------------------------------------------------------------------------
(* Support tickets: a ticket that ends has its stamp.                      *)

TicketRecords == [status : T!Statuses, urgent : BOOLEAN, assigned : BOOLEAN,
                  escalated : BOOLEAN, resolved : BOOLEAN]

\* RESOLVED and ESCALATED are never without their stamps, CLOSED is written by
\* nothing; a reply may write ESCALATED back, but only once it was so.
TicketInv ==
    /\ ticket \in TicketRecords
    /\ reply \in [Tasks -> T!Unresolved \cup {"NONE"}]
    /\ ticket.status = "RESOLVED" => ticket.resolved
    /\ ticket.status = "ESCALATED" => ticket.escalated
    /\ ticket.status # "CLOSED"
    /\ \A t \in Tasks : reply[t] = "ESCALATED" => ticket.escalated

LEMMA TicketStep ==
    ASSUME TicketInv, T!Next
    PROVE  TicketInv'
  <1> USE DEF TicketInv, TicketRecords, T!Statuses, T!Unresolved
  <1>1. ASSUME NEW urgent \in BOOLEAN, T!CreateTicket(urgent) PROVE TicketInv'
    BY <1>1 DEF T!CreateTicket
  <1>2. ASSUME NEW t \in Tasks, T!ReplyRead(t) \/ T!Throw(t) PROVE TicketInv'
    BY <1>2 DEF T!ReplyRead, T!Throw
  <1>3. ASSUME NEW t \in Tasks, NEW author \in {"requester", "staff"}, T!ReplyWrite(t, author)
        PROVE  TicketInv'
    <2>1. PICK s \in T!Unresolved :
              /\ ticket' = [ticket EXCEPT !.status = s]
              /\ s = "ESCALATED" => ticket.escalated
      BY <1>3 DEF T!ReplyWrite
    <2>2. reply' = [reply EXCEPT ![t] = "NONE"]
      BY <1>3 DEF T!ReplyWrite
    <2> QED
      BY <2>1, <2>2
  <1>4. CASE T!Assign
    BY <1>4 DEF T!Assign, T!Only
  <1>5. CASE T!Escalate
    BY <1>5 DEF T!Escalate, T!Only
  <1>6. CASE T!Resolve
    BY <1>6 DEF T!Resolve, T!Only
  <1>7. CASE T!AdminUpdate
    BY ZenonT(60), <1>7 DEF T!AdminUpdate, T!PlainStatuses, T!Only
  <1> QED
    BY <1>1, <1>2, <1>3, <1>4, <1>5, <1>6, <1>7 DEF T!Next

LEMMA TicketInvAlways == Spec => []TicketInv
  <1>1. Init => TicketInv
    BY DEF Init, T!Init, TicketInv, TicketRecords, T!Statuses, T!Unresolved
  <1>2. TicketInv /\ [Next]_vars => TicketInv'
    <2> SUFFICES ASSUME TicketInv, [Next]_vars PROVE TicketInv'
      OBVIOUS
    <2>1. CASE TicketsStep
      BY <2>1, TicketStep DEF TicketsStep
    <2>2. CASE UNCHANGED ticketVars
      BY <2>2 DEF ticketVars, TicketInv
    <2> QED
      BY <2>1, <2>2 DEF Next, vars, OffersStep, PricingStep, NoticesStep
  <1> QED
    BY <1>1, <1>2, PTL DEF Spec

\* However replies and administrators interleave, a RESOLVED ticket has its
\* resolver, an ESCALATED one its escalation, and the reports count it so
\* (support.service.ts:281-387).
THEOREM TicketsAreStamped == Spec => []TicketStamped
  <1>1. TicketInv => TicketStamped
    BY DEF TicketInv, TicketRecords, TicketStamped, T!TicketStamped, T!SupportReport,
           T!ExportTickets, T!TicketSummary, T!Statuses, T!Unresolved
  <1> QED
    BY <1>1, TicketInvAlways, PTL

-----------------------------------------------------------------------------
(* Tariffs: a trip is priced by the tariff made for it.                    *)

\* The least of a set of places, when no smaller place is in it.
LEMMA FirstPlace ==
    ASSUME NEW S \in SUBSET (1 .. 4), NEW i \in S, \A j \in S : i <= j
    PROVE  P!Min(S) = i
  <1>1. \A x \in S : (\A y \in S : x <= y) => x = i
    OBVIOUS
  <1> QED
    BY <1>1 DEF P!Min

\* Of the candidates, the one that scores most is first in the order of
\* TariffFits, whichever rows are active.
LEMMA ResolvesInOrder ==
    ASSUME NEW rows, NEW area \in Areas \cup {None}, None \notin Areas
    PROVE  LET order == <<[service |-> "RIDE", area |-> area], [service |-> "RIDE", area |-> None],
                          [service |-> None, area |-> area], [service |-> None, area |-> None]>>
               active == {i \in 1 .. 4 : rows[order[i]] > 0}
           IN  P!ResolveTariff(rows, area, "RIDE")
                   = IF active = {} THEN {} ELSE {order[P!Min(active)]}
  <1> DEFINE a == [service |-> "RIDE", area |-> area]
             b == [service |-> "RIDE", area |-> None]
             c == [service |-> None, area |-> area]
             d == [service |-> None, area |-> None]
             order == <<a, b, c, d>>
             active == {i \in 1 .. 4 : rows[order[i]] > 0}
             C == P!Candidates(rows, area, "RIDE")
             Points(k) == P!Score(k, area, "RIDE")
             Best == {k \in C : \A o \in C : Points(k) >= Points(o)}
             Fits == P!ResolveTariff(rows, area, "RIDE")
                         = IF active = {} THEN {} ELSE {order[P!Min(active)]}
  <1> SUFFICES Fits
    OBVIOUS
  <1>1. \A k : k \in C <=> k \in {a, b, c, d} /\ rows[k] > 0
    <2>1. \A k \in P!Keys : k = [service |-> k.service, area |-> k.area]
      BY DEF P!Keys
    <2>2. ASSUME NEW k \in C PROVE k \in {a, b, c, d} /\ rows[k] > 0
      BY <2>1, <2>2 DEF P!Candidates, P!Keys
    <2>3. ASSUME NEW k \in {a, b, c, d}, rows[k] > 0 PROVE k \in C
      BY <2>3 DEF P!Candidates, P!Keys
    <2> QED
      BY <2>2, <2>3
  <1>2. /\ Points(a) = (IF None = "RIDE" THEN 0 ELSE 2) + (IF area # None THEN 1 ELSE 0)
        /\ Points(b) = IF None = "RIDE" THEN 0 ELSE 2
        /\ Points(c) = IF area # None THEN 1 ELSE 0
        /\ Points(d) = 0
    BY DEF P!Score
  <1>3. /\ 1 \in active <=> rows[a] > 0
        /\ 2 \in active <=> rows[b] > 0
        /\ 3 \in active <=> rows[c] > 0
        /\ 4 \in active <=> rows[d] > 0
        /\ active \subseteq 1 .. 4
    OBVIOUS
  <1>4. None = "RIDE" => c = a /\ d = b
    OBVIOUS
  <1>5. area = None => a = b /\ c = d
    OBVIOUS
  <1>6. P!ResolveTariff(rows, area, "RIDE") = Best
    BY DEF P!ResolveTariff
  <1>7. order[1] = a /\ order[2] = b /\ order[3] = c /\ order[4] = d
    OBVIOUS
  <1> HIDE DEF a, b, c, d, order, active, C, Points
  <1>8. CASE active = {}
    BY <1>1, <1>3, <1>6, <1>8
  <1>9. CASE 1 \in active
    <2>1. P!Min(active) = 1
      BY <1>3, <1>9, FirstPlace
    <2>2. Best = {a}
      BY <1>1, <1>2, <1>3, <1>4, <1>5, <1>9
    <2> QED
      BY <2>1, <2>2, <1>6, <1>7, <1>9
  <1>10. CASE 1 \notin active /\ 2 \in active
    <2>1. P!Min(active) = 2
      BY <1>3, <1>10, FirstPlace
    <2>2. Best = {b}
      BY <1>1, <1>2, <1>3, <1>4, <1>5, <1>10
    <2> QED
      BY <2>1, <2>2, <1>6, <1>7, <1>10
  <1>11. CASE 1 \notin active /\ 2 \notin active /\ 3 \in active
    <2>1. P!Min(active) = 3
      BY <1>3, <1>11, FirstPlace
    <2>2. Best = {c}
      BY <1>1, <1>2, <1>3, <1>4, <1>5, <1>11
    <2> QED
      BY <2>1, <2>2, <1>6, <1>7, <1>11
  <1>12. CASE 1 \notin active /\ 2 \notin active /\ 3 \notin active /\ 4 \in active
    <2>1. P!Min(active) = 4
      BY <1>3, <1>12, FirstPlace
    <2>2. Best = {d}
      BY <1>1, <1>2, <1>3, <1>4, <1>5, <1>12
    <2> QED
      BY <2>1, <2>2, <1>6, <1>7, <1>12
  <1>13. active = {} \/ 1 \in active \/ 2 \in active \/ 3 \in active \/ 4 \in active
    BY <1>3
  <1> QED
    BY <1>8, <1>9, <1>10, <1>11, <1>12, <1>13 DEF order, active, a, b, c, d

\* Whatever tariffs are active, a trip is priced by the tariff made for it:
\* its service's in its area first, the general one last, and by one if there
\* is any (pricing.service.ts:110-127).
THEOREM TripsArePricedRight == Spec => []TariffFits
  <1>1. TariffFits
    <2>1. None \notin Areas
      BY ServicesAssumption DEF P!PricingAssumption
    <2> QED
      BY <2>1, ResolvesInOrder DEF TariffFits, P!TariffFits
  <1> QED
    BY <1>1, PTL

-----------------------------------------------------------------------------
(* Limits: batteries and redemptions.                                      *)

HoldingPcs == {"pay", "reserve", "release"}
CountedPcs == {"user", "redeem"}
StationRecords == [available : Nat, active : BOOLEAN, given : Nat]
PromoRecords == [active : BOOLEAN, limit : Limits, highest : Limits]

InPcs(calls, pcs) == {t \in Tasks : calls[t].pc \in pcs}
OneIf(pc, pcs) == IF pc \in pcs THEN 1 ELSE 0
Total == SumFunctionOnSet(redeemed, Users)

\* A battery is sold, held by a call or available; a redemption is recorded or
\* on its way, and those on their way are calls.
StockInv ==
    /\ station \in StationRecords /\ sold \in Nat
    /\ sold + Cardinality(InPcs(offerTask, HoldingPcs)) + station.available <= station.given
CountInv ==
    /\ promo \in PromoRecords /\ promo.limit <= promo.highest
    /\ redeemed \in [Users -> Nat]
    /\ Total + Cardinality(InPcs(offerTask, CountedPcs))
           <= promo.highest + Cardinality(Tasks) - 1

LEMMA OffersConstants ==
    /\ IsFiniteSet(Users) /\ IsFiniteSet(Tasks) /\ Cardinality(Tasks) \in Nat
    /\ Limits \subseteq Nat \ {0} /\ Limits # {}
    /\ MaxStock \in Nat
  <1>1. F!OffersAssumption
    BY ServicesAssumption
  <1>2. IsFiniteSet(Users) /\ IsFiniteSet(Tasks)
    BY <1>1, SameSizes DEF F!OffersAssumption
  <1>3. Cardinality(Tasks) \in Nat
    BY <1>2, FS_CardinalityType
  <1> QED
    BY <1>1, <1>2, <1>3 DEF F!OffersAssumption

LEMMA InPcsFinite ==
    ASSUME NEW calls, NEW pcs
    PROVE  /\ IsFiniteSet(InPcs(calls, pcs))
           /\ Cardinality(InPcs(calls, pcs)) \in Nat
           /\ Cardinality(InPcs(calls, pcs)) <= Cardinality(Tasks)
  <1>1. InPcs(calls, pcs) \subseteq Tasks
    BY DEF InPcs
  <1>2. /\ IsFiniteSet(InPcs(calls, pcs))
        /\ Cardinality(InPcs(calls, pcs)) <= Cardinality(Tasks)
    BY <1>1, OffersConstants, FS_Subset
  <1> QED
    BY <1>2, FS_CardinalityType

\* When one call moves, the calls at given points are one more or one fewer.
LEMMA InPcsMoves ==
    ASSUME NEW calls \in [Tasks -> TaskRecords], NEW t \in Tasks, NEW k \in TaskRecords, NEW pcs
    PROVE  Cardinality(InPcs([calls EXCEPT ![t] = k], pcs))
               = Cardinality(InPcs(calls, pcs)) + OneIf(k.pc, pcs) - OneIf(calls[t].pc, pcs)
  <1> DEFINE calls2 == [calls EXCEPT ![t] = k]
  <1>1. \A s \in Tasks : calls2[s] = IF s = t THEN k ELSE calls[s]
    OBVIOUS
  <1> HIDE DEF calls2
  <1>2. PICK old \in SUBSET Tasks : old = InPcs(calls, pcs)
    BY DEF InPcs
  <1>3. PICK new \in SUBSET Tasks : new = InPcs(calls2, pcs)
    BY DEF InPcs
  <1>4. new \ {t} = old \ {t}
    BY <1>1, <1>2, <1>3 DEF InPcs
  <1>5. (t \in new <=> k.pc \in pcs) /\ (t \in old <=> calls[t].pc \in pcs)
    BY <1>1, <1>2, <1>3 DEF InPcs
  <1>6. /\ IsFiniteSet(old) /\ Cardinality(old) \in Nat
        /\ IsFiniteSet(new) /\ Cardinality(new) \in Nat
    BY <1>2, <1>3, InPcsFinite
  <1>7. Cardinality(old \ {t}) = IF t \in old THEN Cardinality(old) - 1 ELSE Cardinality(old)
    BY <1>6, FS_RemoveElement
  <1>8. Cardinality(new \ {t}) = IF t \in new THEN Cardinality(new) - 1 ELSE Cardinality(new)
    BY <1>6, FS_RemoveElement
  <1>9. Cardinality(new) = Cardinality(old) + OneIf(k.pc, pcs) - OneIf(calls[t].pc, pcs)
    BY <1>4, <1>5, <1>6, <1>7, <1>8 DEF OneIf
  <1> QED
    BY <1>2, <1>3, <1>9 DEF calls2

\* A call that moves takes no more batteries than it gives back ...
LEMMA StockMoves ==
    ASSUME StockInv, PayoutInv, NEW t \in Tasks, NEW k \in TaskRecords,
           offerTask' = [offerTask EXCEPT ![t] = k],
           station' \in StationRecords, station'.given = station.given, sold' \in Nat,
           sold' + station'.available + OneIf(k.pc, HoldingPcs)
               <= sold + station.available + OneIf(offerTask[t].pc, HoldingPcs)
    PROVE  StockInv'
  <1>1. Cardinality(InPcs(offerTask', HoldingPcs))
            = Cardinality(InPcs(offerTask, HoldingPcs))
                  + OneIf(k.pc, HoldingPcs) - OneIf(offerTask[t].pc, HoldingPcs)
    BY InPcsMoves DEF PayoutInv
  <1>2. PICK n \in Nat : n = Cardinality(InPcs(offerTask, HoldingPcs))
    BY InPcsFinite
  <1>3. /\ OneIf(k.pc, HoldingPcs) \in Nat /\ OneIf(offerTask[t].pc, HoldingPcs) \in Nat
        /\ station.available \in Nat /\ station.given \in Nat /\ station'.available \in Nat
    BY DEF OneIf, StockInv, StationRecords
  <1>4. InPcs(offerTask, HoldingPcs)' = InPcs(offerTask', HoldingPcs)
    BY DEF InPcs, HoldingPcs
  <1>5. sold' + Cardinality(InPcs(offerTask', HoldingPcs)) + station'.available <= station'.given
    BY <1>1, <1>2, <1>3 DEF StockInv
  <1> QED
    BY <1>4, <1>5 DEF StockInv

\* ... and one that moves on to a redemption has seen the total below the limit.
LEMMA CountMoves ==
    ASSUME CountInv, PayoutInv, NEW t \in Tasks, NEW k \in TaskRecords,
           offerTask' = [offerTask EXCEPT ![t] = k],
           promo' = promo, redeemed' \in [Users -> Nat], Total' \in Int,
           \/ Total' + OneIf(k.pc, CountedPcs) <= Total + OneIf(offerTask[t].pc, CountedPcs)
           \/ Total' = Total /\ Total < promo.limit
    PROVE  CountInv'
  <1>1. Cardinality(InPcs(offerTask', CountedPcs))
            = Cardinality(InPcs(offerTask, CountedPcs))
                  + OneIf(k.pc, CountedPcs) - OneIf(offerTask[t].pc, CountedPcs)
    BY InPcsMoves DEF PayoutInv
  <1>2. PICK n \in Nat : n = Cardinality(InPcs(offerTask, CountedPcs))
    BY InPcsFinite
  <1>3. PICK m \in Nat : m = Cardinality(InPcs(offerTask', CountedPcs))
                         /\ m <= Cardinality(Tasks)
    BY InPcsFinite
  <1>4. /\ OneIf(k.pc, CountedPcs) \in Nat /\ OneIf(offerTask[t].pc, CountedPcs) \in Nat
        /\ promo.limit \in Nat /\ promo.highest \in Nat /\ Cardinality(Tasks) \in Nat
    BY OffersConstants DEF OneIf, CountInv, PromoRecords
  <1>5. Total \in Int
    BY OffersConstants, SumInt DEF CountInv, Total, Ints
  <1>6. InPcs(offerTask, CountedPcs)' = InPcs(offerTask', CountedPcs)
    BY DEF InPcs, CountedPcs
  <1>7. Total' + m <= promo.highest + Cardinality(Tasks) - 1
    BY <1>1, <1>2, <1>3, <1>4, <1>5 DEF CountInv
  <1> QED
    BY <1>3, <1>6, <1>7 DEF CountInv

\* A call goes from one point to another.
Moves(t, from, to) ==
    /\ offerTask[t].pc = from
    /\ \E k \in TaskRecords : k.pc = to /\ offerTask' = [offerTask EXCEPT ![t] = k]

LEMMA CallsMove ==
    ASSUME PayoutInv, NEW t \in Tasks
    PROVE  /\ \A pc \in OtherPcs \cup {"refer", "accrue", "payouts", "paid"} :
                  /\ F!Goto(t, pc) => Moves(t, offerTask[t].pc, pc)
                  /\ \A u \in Users \cup {None}, todo \in SUBSET Users :
                         F!Call(t, pc, u, todo) => Moves(t, "idle", pc)
           /\ F!Return(t) => Moves(t, offerTask[t].pc, "idle")
  <1>1. offerTask[t] \in TaskRecords
    BY DEF PayoutInv
  <1>2. ASSUME NEW pc \in OtherPcs \cup {"refer", "accrue", "payouts", "paid"}, F!Goto(t, pc)
        PROVE  Moves(t, offerTask[t].pc, pc)
    <2> DEFINE k == [offerTask[t] EXCEPT !.pc = pc]
    <2>1. k \in TaskRecords /\ k.pc = pc
      BY <1>1 DEF TaskRecords
    <2>2. offerTask' = [offerTask EXCEPT ![t] = k]
      BY <1>2 DEF F!Goto
    <2> QED
      BY <2>1, <2>2 DEF Moves
  <1>3. ASSUME NEW pc \in OtherPcs \cup {"refer", "accrue", "payouts", "paid"},
               NEW u \in Users \cup {None}, NEW todo \in SUBSET Users, F!Call(t, pc, u, todo)
        PROVE  Moves(t, "idle", pc)
    <2> DEFINE k == [pc |-> pc, u |-> u, todo |-> todo]
    <2>1. k \in TaskRecords /\ k.pc = pc
      BY DEF TaskRecords
    <2>2. offerTask' = [offerTask EXCEPT ![t] = k] /\ offerTask[t].pc = "idle"
      BY <1>3 DEF F!Call, F!Idle
    <2> QED
      BY <2>1, <2>2 DEF Moves
  <1>4. F!Return(t) => Moves(t, offerTask[t].pc, "idle")
    BY IdleKnows DEF F!Return, F!Idle, Moves
  <1> QED
    BY <1>2, <1>3, <1>4

LEMMA QuietMoves ==
    ASSUME StockInv, CountInv, PayoutInv, UNCHANGED <<station, sold, promo, redeemed>>,
           NEW t \in Tasks, NEW from, NEW to, Moves(t, from, to),
           to \in HoldingPcs => from \in HoldingPcs,
           to \in CountedPcs => from \in CountedPcs
    PROVE  StockInv' /\ CountInv'
  <1>1. PICK k \in TaskRecords : k.pc = to /\ offerTask' = [offerTask EXCEPT ![t] = k]
    BY DEF Moves
  <1>2. OneIf(to, HoldingPcs) <= OneIf(from, HoldingPcs)
        /\ OneIf(to, HoldingPcs) \in Nat /\ OneIf(from, HoldingPcs) \in Nat
    BY DEF OneIf
  <1>3. OneIf(to, CountedPcs) <= OneIf(from, CountedPcs)
        /\ OneIf(to, CountedPcs) \in Nat /\ OneIf(from, CountedPcs) \in Nat
    BY DEF OneIf
  <1>4. Total' = Total /\ Total \in Int
    BY OffersConstants, SumInt DEF CountInv, Total, Ints
  <1>5. sold' + station'.available + OneIf(k.pc, HoldingPcs)
            <= sold + station.available + OneIf(offerTask[t].pc, HoldingPcs)
    BY <1>1, <1>2 DEF StockInv, StationRecords, Moves
  <1>6. Total' + OneIf(k.pc, CountedPcs) <= Total + OneIf(offerTask[t].pc, CountedPcs)
    BY <1>1, <1>3, <1>4 DEF Moves
  <1>7. StockInv'
    BY <1>1, <1>5, StockMoves DEF StockInv
  <1>8. CountInv'
    BY <1>1, <1>4, <1>6, CountMoves DEF CountInv
  <1> QED
    BY <1>7, <1>8

LEMMA PartnersKeepLimits ==
    ASSUME StockInv, CountInv, PayoutInv, NEW t \in Tasks, F!PartnerNext(t) \/ F!Throw(t)
    PROVE  StockInv' /\ CountInv'
  <1> USE DEF F!OnlyTask, F!promoVars, F!swapVars, F!partnerVars, F!At, HoldingPcs, CountedPcs,
              OtherPcs
  <1>1. ASSUME NEW u \in Users, F!RedeemCode(t, u) PROVE Moves(t, "idle", "refer")
    BY <1>1, CallsMove DEF F!RedeemCode
  <1>2. ASSUME NEW u \in Users, F!Payout(t, u) PROVE Moves(t, "payouts", "paid")
    <2> DEFINE k == [offerTask[t] EXCEPT !.pc = "paid", !.u = u]
    <2>1. offerTask[t] \in TaskRecords
      BY DEF PayoutInv
    <2>2. k \in TaskRecords /\ k.pc = "paid"
      BY <2>1 DEF TaskRecords
    <2>3. offerTask' = [offerTask EXCEPT ![t] = k] /\ offerTask[t].pc = "payouts"
      BY <1>2, <2>1 DEF F!Payout, TaskRecords
    <2> QED
      BY <2>2, <2>3 DEF Moves
  <1>3. ASSUME NEW u \in Users, F!Claim(t, u) PROVE Moves(t, "idle", "claim")
    BY <1>3, CallsMove DEF F!Claim
  <1>4. CASE F!Refer(t)
    <2>1. Moves(t, "refer", "accrue")
      BY <1>4, CallsMove DEF F!Refer
    <2> QED
      BY <1>4, <2>1, QuietMoves DEF F!Refer
  <1>5. CASE F!Accrue(t)
    <2>1. Moves(t, "accrue", "idle")
      BY <1>5, CallsMove DEF F!Accrue
    <2> QED
      BY <1>5, <2>1, QuietMoves DEF F!Accrue
  <1>6. CASE F!ProcessPayouts(t)
    <2>1. Moves(t, "idle", "payouts")
      BY <1>6, CallsMove DEF F!ProcessPayouts
    <2> QED
      BY <1>6, <2>1, QuietMoves DEF F!ProcessPayouts
  <1>7. CASE F!MarkPaid(t)
    <2>1. offerTask[t] \in TaskRecords /\ offerTask[t].pc = "paid"
      BY <1>7 DEF PayoutInv, F!MarkPaid
    <2>2. PICK rest \in SUBSET Users : rest = offerTask[t].todo \ {offerTask[t].u}
      BY <2>1 DEF TaskRecords
    <2>3. CASE rest = {}
      <3>1. F!Return(t)
        BY <1>7, <2>2, <2>3 DEF F!MarkPaid, F!Return
      <3>2. Moves(t, "paid", "idle")
        BY <2>1, <3>1, CallsMove
      <3> QED
        BY <1>7, <3>2, QuietMoves DEF F!MarkPaid
    <2>4. CASE rest # {}
      <3> DEFINE k == [pc |-> "payouts", u |-> None, todo |-> rest]
      <3>1. k \in TaskRecords /\ k.pc = "payouts"
        BY DEF TaskRecords
      <3>2. offerTask' = [offerTask EXCEPT ![t] = k]
        BY <1>7, <2>2, <2>4 DEF F!MarkPaid
      <3>3. Moves(t, "paid", "payouts")
        BY <2>1, <3>1, <3>2 DEF Moves
      <3> QED
        BY <1>7, <3>3, QuietMoves DEF F!MarkPaid
    <2> QED
      BY <2>3, <2>4
  <1>8. CASE F!ClaimWrite(t)
    <2>1. Moves(t, "claim", "idle")
      BY <1>8, CallsMove DEF F!ClaimWrite
    <2> QED
      BY <1>8, <2>1, QuietMoves DEF F!ClaimWrite
  <1>9. CASE F!Throw(t)
    <2>1. Moves(t, offerTask[t].pc, "idle")
      BY <1>9, CallsMove DEF F!Throw
    <2> QED
      BY <1>9, <2>1, QuietMoves DEF F!Throw
  <1>10. ASSUME NEW u \in Users, F!RedeemCode(t, u) \/ F!Payout(t, u) \/ F!Claim(t, u)
         PROVE  StockInv' /\ CountInv'
    <2>1. UNCHANGED <<station, sold, promo, redeemed>>
      BY <1>10 DEF F!RedeemCode, F!Payout, F!Claim
    <2> QED
      BY <1>1, <1>2, <1>3, <1>10, <2>1, QuietMoves
  <1> QED
    BY <1>4, <1>5, <1>6, <1>7, <1>8, <1>9, <1>10 DEF F!PartnerNext

LEMMA SameSums ==
    ASSUME NEW f
    PROVE  F!SumFunction(f) = SumFunctionOnSet(f, DOMAIN f)
  BY DEF F!SumFunction, F!SumFunctionOnSet, F!FoldFunctionOnSet, F!MapThenFoldSet,
         SumFunctionOnSet, FoldFunctionOnSet, MapThenFoldSet

LEMMA PromoKeepsLimits ==
    ASSUME StockInv, CountInv, PayoutInv, NEW t \in Tasks, F!PromoNext(t)
    PROVE  StockInv' /\ CountInv'
  <1> USE DEF F!OnlyTask, F!promoVars, F!swapVars, F!partnerVars, F!At, HoldingPcs, CountedPcs,
              OtherPcs
  <1>1. ASSUME NEW u \in Users, F!Validate(t, u) PROVE StockInv' /\ CountInv'
    <2>1. Moves(t, "idle", "total")
      BY <1>1, CallsMove DEF F!Validate
    <2> QED
      BY <1>1, <2>1, QuietMoves DEF F!Validate
  <1>2. CASE F!CountTotal(t)
    <2>1. Moves(t, "total", "user")
      BY <1>2, CallsMove DEF F!CountTotal
    <2>2. PICK k \in TaskRecords : k.pc = "user" /\ offerTask' = [offerTask EXCEPT ![t] = k]
      BY <2>1 DEF Moves
    <2>3. Total < promo.limit
      <3>1. DOMAIN redeemed = Users
        BY DEF CountInv
      <3> QED
        BY <1>2, <3>1, SameSums DEF F!CountTotal, F!WithinTotal, F!Redeemed, Total
    <2>4. Total' = Total /\ Total \in Int
      BY <1>2, OffersConstants, SumInt DEF F!CountTotal, CountInv, Total, Ints
    <2>5. CountInv'
      BY <1>2, <2>2, <2>3, <2>4, CountMoves DEF F!CountTotal, CountInv
    <2>6. OneIf(k.pc, HoldingPcs) = 0 /\ OneIf(offerTask[t].pc, HoldingPcs) = 0
      BY <2>1, <2>2 DEF OneIf, Moves
    <2>7. StockInv'
      <3>1. station' = station /\ sold' = sold /\ station \in StationRecords /\ sold \in Nat
        BY <1>2 DEF F!CountTotal, StockInv
      <3>2. sold' + station'.available + OneIf(k.pc, HoldingPcs)
                <= sold + station.available + OneIf(offerTask[t].pc, HoldingPcs)
        BY <2>6, <3>1 DEF StationRecords
      <3> QED
        BY <2>2, <3>1, <3>2, StockMoves
    <2> QED
      BY <2>5, <2>7
  <1>3. CASE F!CountUser(t)
    <2>1. Moves(t, "user", "redeem")
      BY <1>3, CallsMove DEF F!CountUser
    <2> QED
      BY <1>3, <2>1, QuietMoves DEF F!CountUser
  <1>4. CASE F!Redeem(t)
    <2>1. Moves(t, "redeem", "idle")
      BY <1>4, CallsMove DEF F!Redeem
    <2>2. PICK k \in TaskRecords : k.pc = "idle" /\ offerTask' = [offerTask EXCEPT ![t] = k]
      BY <2>1 DEF Moves
    <2>3. PICK u : u = offerTask[t].u
      OBVIOUS
    <2>4. redeemed' = [redeemed EXCEPT ![u] = @ + 1]
      BY <1>4, <2>3 DEF F!Redeem
    <2>5. redeemed' \in [Users -> Nat] /\ Ints(redeemed, Users) /\ Ints(redeemed', Users)
      <3>1. redeemed \in [Users -> Nat]
        BY DEF CountInv
      <3>2. \A w \in Users : redeemed[w] \in Nat /\ redeemed[w] + 1 \in Nat
        BY <3>1
      <3>3. redeemed' \in [Users -> Nat]
        BY <2>4, <3>1, <3>2
      <3> QED
        BY <3>1, <3>3 DEF Ints
    <2>6. Total \in Int /\ Total' \in Int
      BY <2>5, OffersConstants, SumInt DEF Total
    <2>7. Total' <= Total + 1
      <3>1. CASE u \in Users
        <4>1. redeemed'[u] = redeemed[u] + 1 /\ \A w \in Users \ {u} : redeemed'[w] = redeemed[w]
          BY <2>4, <3>1 DEF CountInv
        <4>2. redeemed[u] \in Int /\ redeemed'[u] \in Int
          BY <2>5, <3>1 DEF Ints
        <4>3. SumFunctionOnSet(redeemed', Users)
                  = SumFunctionOnSet(redeemed, Users) + redeemed'[u] - redeemed[u]
          BY <2>5, <3>1, <4>1, <4>2, OffersConstants, SumUpdate
        <4> QED
          BY <2>6, <4>1, <4>2, <4>3 DEF Total
      <3>2. CASE u \notin Users
        <4>1. redeemed' = redeemed
          BY <2>4, <3>2 DEF CountInv
        <4> QED
          BY <2>6, <4>1 DEF Total
      <3> QED
        BY <3>1, <3>2
    <2>8. /\ OneIf(k.pc, HoldingPcs) = 0 /\ OneIf(offerTask[t].pc, HoldingPcs) = 0
          /\ OneIf(k.pc, CountedPcs) = 0 /\ OneIf(offerTask[t].pc, CountedPcs) = 1
      BY <2>1, <2>2 DEF OneIf, Moves
    <2>9. CountInv'
      <3>1. Total' + OneIf(k.pc, CountedPcs) <= Total + OneIf(offerTask[t].pc, CountedPcs)
        BY <2>6, <2>7, <2>8
      <3>2. promo' = promo
        BY <1>4 DEF F!Redeem
      <3> QED
        BY <2>2, <2>5, <2>6, <3>1, <3>2, CountMoves
    <2>10. StockInv'
      <3>1. station' = station /\ sold' = sold /\ station \in StationRecords /\ sold \in Nat
        BY <1>4 DEF F!Redeem, StockInv
      <3>2. sold' + station'.available + OneIf(k.pc, HoldingPcs)
                <= sold + station.available + OneIf(offerTask[t].pc, HoldingPcs)
        BY <2>8, <3>1 DEF StationRecords
      <3> QED
        BY <2>2, <3>1, <3>2, StockMoves
    <2> QED
      BY <2>9, <2>10
  <1> QED
    BY <1>1, <1>2, <1>3, <1>4 DEF F!PromoNext

\* A step of a call that changes the batteries leaves the codes alone.
LEMMA SwapMoves ==
    ASSUME StockInv, CountInv, PayoutInv, UNCHANGED <<promo, redeemed>>,
           NEW t \in Tasks, NEW from, NEW to, Moves(t, from, to),
           to \notin CountedPcs, station' \in StationRecords, sold' \in Nat,
           station'.given = station.given,
           sold' + station'.available + OneIf(to, HoldingPcs)
               <= sold + station.available + OneIf(from, HoldingPcs)
    PROVE  StockInv' /\ CountInv'
  <1>1. PICK k \in TaskRecords : k.pc = to /\ offerTask' = [offerTask EXCEPT ![t] = k]
    BY DEF Moves
  <1>2. StockInv'
    BY <1>1, StockMoves DEF Moves
  <1>3. Total' = Total /\ Total \in Int
    BY OffersConstants, SumInt DEF CountInv, Total, Ints
  <1>4. Total' + OneIf(k.pc, CountedPcs) <= Total + OneIf(offerTask[t].pc, CountedPcs)
    BY <1>1, <1>3 DEF OneIf
  <1>5. CountInv'
    BY <1>1, <1>3, <1>4, CountMoves DEF CountInv
  <1> QED
    BY <1>2, <1>5

LEMMA SwapKeepsLimits ==
    ASSUME StockInv, CountInv, PayoutInv, NEW t \in Tasks, F!SwapNext(t)
    PROVE  StockInv' /\ CountInv'
  <1> USE DEF F!OnlyTask, F!promoVars, F!swapVars, F!partnerVars, F!At, HoldingPcs, CountedPcs,
              OtherPcs
  <1>0. station \in StationRecords /\ sold \in Nat
    BY DEF StockInv
  <1>1. ASSUME NEW u \in Users, F!Reserve(t, u) PROVE StockInv' /\ CountInv'
    <2>1. Moves(t, "idle", "take")
      BY <1>1, CallsMove DEF F!Reserve
    <2> QED
      BY <1>1, <2>1, QuietMoves DEF F!Reserve
  <1>2. CASE F!Take(t)
    <2>1. Moves(t, "take", "pay")
      BY <1>2, CallsMove DEF F!Take
    <2>2. station' \in StationRecords /\ station'.available = station.available - 1
                                      /\ station'.given = station.given
      BY <1>0, <1>2 DEF F!Take, StationRecords
    <2>3. sold' = sold /\ sold + station'.available + 1 = sold + station.available + 0
      BY <1>0, <1>2, <2>2 DEF F!Take, StationRecords
    <2> QED
      <3>1. OneIf("take", HoldingPcs) = 0 /\ OneIf("pay", HoldingPcs) = 1
        BY DEF OneIf
      <3>2. sold' + station'.available + OneIf("pay", HoldingPcs)
                <= sold + station.available + OneIf("take", HoldingPcs)
        BY <1>0, <2>2, <2>3, <3>1 DEF StationRecords
      <3>3. UNCHANGED <<promo, redeemed>> /\ sold' \in Nat /\ station' \in StationRecords
            /\ station'.given = station.given
        BY <1>0, <1>2, <2>2, <2>3 DEF F!Take
      <3> QED
        BY <2>1, <3>2, <3>3, SwapMoves
  <1>3. CASE F!Pay(t)
    <2>1. Moves(t, "pay", "reserve")
      BY <1>3, CallsMove DEF F!Pay
    <2> QED
      BY <1>3, <2>1, QuietMoves DEF F!Pay
  <1>4. CASE F!PayFails(t)
    <2>1. Moves(t, "pay", "release") \/ Moves(t, "reserve", "release")
      BY <1>4, CallsMove DEF F!PayFails
    <2> QED
      BY <1>4, <2>1, QuietMoves DEF F!PayFails
  <1>5. CASE F!Reserved(t)
    <2>1. Moves(t, "reserve", "idle")
      BY <1>5, CallsMove DEF F!Reserved
    <2>2. /\ station' = station /\ sold' = sold + 1
          /\ sold' + station'.available + 0 = sold + station.available + 1
      BY <1>0, <1>5 DEF F!Reserved, StationRecords
    <2> QED
      <3>1. OneIf("reserve", HoldingPcs) = 1 /\ OneIf("idle", HoldingPcs) = 0
        BY DEF OneIf
      <3>2. sold' + station'.available + OneIf("idle", HoldingPcs)
                <= sold + station.available + OneIf("reserve", HoldingPcs)
        BY <1>0, <2>2, <3>1 DEF StationRecords
      <3>3. UNCHANGED <<promo, redeemed>> /\ sold' \in Nat /\ station' \in StationRecords
            /\ station'.given = station.given
        BY <1>0, <1>5, <2>2 DEF F!Reserved
      <3> QED
        BY <2>1, <3>2, <3>3, SwapMoves
  <1>6. CASE F!Release(t)
    <2>1. Moves(t, "release", "idle")
      BY <1>6, CallsMove DEF F!Release
    <2>2. station' \in StationRecords /\ station'.available = station.available + 1
                                      /\ station'.given = station.given
      BY <1>0, <1>6 DEF F!Release, StationRecords
    <2>3. sold' = sold /\ sold + station'.available + 0 = sold + station.available + 1
      BY <1>0, <1>6, <2>2 DEF F!Release, StationRecords
    <2> QED
      <3>1. OneIf("release", HoldingPcs) = 1 /\ OneIf("idle", HoldingPcs) = 0
        BY DEF OneIf
      <3>2. sold' + station'.available + OneIf("idle", HoldingPcs)
                <= sold + station.available + OneIf("release", HoldingPcs)
        BY <1>0, <2>2, <2>3, <3>1 DEF StationRecords
      <3>3. UNCHANGED <<promo, redeemed>> /\ sold' \in Nat /\ station' \in StationRecords
            /\ station'.given = station.given
        BY <1>0, <1>6, <2>2, <2>3 DEF F!Release
      <3> QED
        BY <2>1, <3>2, <3>3, SwapMoves
  <1> QED
    BY <1>1, <1>2, <1>3, <1>4, <1>5, <1>6 DEF F!SwapNext

LEMMA HigherLimit ==
    ASSUME NEW l \in Limits, NEW h \in Limits
    PROVE  F!Max({l, h}) \in Limits /\ F!Max({l, h}) >= l /\ F!Max({l, h}) >= h
  <1>1. l \in Nat /\ h \in Nat
    BY OffersConstants
  <1>2. \E m \in {l, h} : \A y \in {l, h} : m >= y
    BY <1>1
  <1>3. /\ F!Max({l, h}) \in {l, h}
        /\ \A y \in {l, h} : F!Max({l, h}) >= y
    BY <1>2 DEF F!Max
  <1> QED
    BY <1>3

LEMMA CountsTyped == CountInv => promo.highest \in Nat /\ Total \in Int
  <1> SUFFICES ASSUME CountInv PROVE promo.highest \in Nat /\ Total \in Int
    OBVIOUS
  <1>1. Ints(redeemed, Users)
    BY DEF CountInv, Ints
  <1>2. Total \in Int
    BY <1>1, OffersConstants, SumInt DEF Total
  <1>3. promo.highest \in Nat
    BY OffersConstants DEF CountInv, PromoRecords
  <1> QED
    BY <1>2, <1>3

LEMMA LimitsInit == Init => StockInv /\ CountInv
  <1> SUFFICES ASSUME F!Init PROVE StockInv /\ CountInv
    BY DEF Init
  <1>1. /\ \A pcs : "idle" \notin pcs => InPcs(offerTask, pcs) = {}
        /\ Cardinality({}) = 0
    BY FS_EmptySet DEF InPcs, F!Init, F!Idle
  <1>2. PICK n \in 0 .. MaxStock : station = [available |-> n, active |-> TRUE, given |-> n]
    BY DEF F!Init
  <1>3. n \in Nat /\ sold = 0
    BY OffersConstants DEF F!Init
  <1>4. StockInv
    BY <1>1, <1>2, <1>3 DEF StockInv, StationRecords, HoldingPcs
  <1>5. PICK l \in Limits : promo = [active |-> TRUE, limit |-> l, highest |-> l]
    BY DEF F!Init
  <1>6. l \in Nat \ {0} /\ Cardinality(Tasks) \in Nat
    BY OffersConstants
  <1>7. redeemed = [u \in Users |-> 0]
    BY DEF F!Init
  <1>8. Total = 0
    <2>1. \A u \in Users : redeemed[u] = 0
      BY <1>7
    <2> QED
      BY <2>1, OffersConstants, SumZero DEF Total
  <1>9. CountInv
    BY <1>1, <1>5, <1>6, <1>7, <1>8 DEF CountInv, PromoRecords, CountedPcs
  <1> QED
    BY <1>4, <1>9

LEMMA LimitsNext == PayoutInv /\ StockInv /\ CountInv /\ [Next]_vars => StockInv' /\ CountInv'
  <1> SUFFICES ASSUME PayoutInv, StockInv, CountInv, [Next]_vars PROVE StockInv' /\ CountInv'
    OBVIOUS
  <1>1. ASSUME NEW t \in Tasks,
               F!PromoNext(t) \/ F!PartnerNext(t) \/ F!SwapNext(t) \/ F!Throw(t)
        PROVE  StockInv' /\ CountInv'
    BY <1>1, PromoKeepsLimits, PartnersKeepLimits, SwapKeepsLimits
  <1>2. ASSUME NEW l \in Limits, NEW on \in BOOLEAN, F!UpdatePromo(l, on)
        PROVE  StockInv' /\ CountInv'
    <2>1. /\ UNCHANGED <<station, sold, redeemed, offerTask>>
          /\ promo' = [active |-> on, limit |-> l, highest |-> F!Max({l, promo.highest})]
      BY <1>2 DEF F!UpdatePromo, F!swapVars
    <2>2. /\ promo' \in PromoRecords /\ promo'.limit <= promo'.highest
          /\ promo.highest <= promo'.highest
      BY <2>1, HigherLimit DEF CountInv, PromoRecords
    <2>3. StockInv'
      BY <2>1 DEF StockInv, InPcs
    <2>4. Total' = Total /\ InPcs(offerTask, CountedPcs)' = InPcs(offerTask, CountedPcs)
      BY <2>1 DEF Total, InPcs, CountedPcs
    <2>5. PICK n \in Nat : n = Cardinality(InPcs(offerTask, CountedPcs))
      BY InPcsFinite
    <2>6. /\ promo.highest \in Nat /\ promo'.highest \in Nat /\ Cardinality(Tasks) \in Nat
          /\ Total \in Int
      BY <2>2, OffersConstants, CountsTyped DEF PromoRecords
    <2>7. Total + n <= promo'.highest + Cardinality(Tasks) - 1
      BY <2>2, <2>5, <2>6 DEF CountInv
    <2> QED
      BY <2>1, <2>2, <2>3, <2>4, <2>5, <2>7 DEF CountInv
  <1>3. ASSUME NEW n \in 0 .. MaxStock, NEW on \in BOOLEAN, F!UpdateStation(n, on)
        PROVE  StockInv' /\ CountInv'
    <2>1. PICK h \in Nat : h = Cardinality(InPcs(offerTask, HoldingPcs))
      BY InPcsFinite
    <2>2. F!Cardinality(F!Holding) = h
      BY <2>1, SameSizes DEF F!Holding, InPcs, HoldingPcs
    <2>3. /\ UNCHANGED <<promo, redeemed, sold, offerTask>>
          /\ station' = [available |-> n, active |-> on, given |-> sold + h + n]
      BY <1>3, <2>2 DEF F!UpdateStation, F!promoVars
    <2>4. n \in Nat /\ sold \in Nat
      BY OffersConstants DEF StockInv
    <2>5. InPcs(offerTask, HoldingPcs)' = InPcs(offerTask, HoldingPcs)
      BY <2>3 DEF InPcs, HoldingPcs
    <2>6. StockInv'
      BY <2>1, <2>3, <2>4, <2>5 DEF StockInv, StationRecords
    <2>7. CountInv'
      BY <2>3 DEF CountInv, Total, InPcs, CountedPcs
    <2> QED
      BY <2>6, <2>7
  <1>4. CASE F!Next
    BY <1>1, <1>2, <1>3, <1>4 DEF F!Next
  <1>5. CASE UNCHANGED offerVars
    BY <1>5 DEF offerVars, StockInv, CountInv, Total, InPcs
  <1> QED
    BY <1>4, <1>5 DEF Next, OffersStep, PricingStep, NoticesStep, TicketsStep, vars

\* However calls interleave, stop or fail and whatever an administrator sets
\* meanwhile, no battery is sold twice, and redemptions pass their limit by no
\* more than the calls under way (battery-swap.service.ts:72-98,
\* promo.service.ts:71-114).
THEOREM LimitsAreHeld == Spec => []LimitsHold
  <1>1. StockInv /\ CountInv => LimitsHold
    <2> SUFFICES ASSUME StockInv, CountInv PROVE F!LimitsHold
      BY DEF LimitsHold
    <2>1. F!Cardinality(F!Holding) = Cardinality(InPcs(offerTask, HoldingPcs))
      BY SameSizes DEF F!Holding, InPcs, HoldingPcs
    <2>2. F!Redeemed = Total /\ F!Cardinality(Tasks) = Cardinality(Tasks)
      <3>1. DOMAIN redeemed = Users
        BY DEF CountInv
      <3> QED
        BY <3>1, SameSums, SameSizes DEF F!Redeemed, Total
    <2>3. PICK n \in Nat : n = Cardinality(InPcs(offerTask, CountedPcs))
      BY InPcsFinite
    <2>4. /\ promo.highest \in Nat /\ Cardinality(Tasks) \in Nat /\ Total \in Int
      BY OffersConstants, CountsTyped
    <2>5. Total <= promo.highest + Cardinality(Tasks) - 1
      BY <2>3, <2>4 DEF CountInv
    <2> QED
      BY <2>1, <2>2, <2>5 DEF F!LimitsHold, StockInv
  <1>2. Init => StockInv /\ CountInv
    BY LimitsInit
  <1>3. PayoutInv /\ StockInv /\ CountInv /\ [Next]_vars => StockInv' /\ CountInv'
    BY LimitsNext
  <1> QED
    BY <1>1, <1>2, <1>3, PayoutInvAlways, PTL DEF Spec

-----------------------------------------------------------------------------
(* Campaigns: one that is marked as sent reached its audience.             *)

Boxes == [campaign : Nat, other : Nat]
Campaigns == [row : {"NONE", "CREATED", "SENT"},
              job : {"none", "delayed", "waiting", "active", "done", "failed"},
              runs : Nat, audience : SUBSET Recipients]
NoticeCalls == [pc : {"idle", "send", "devices", "push", "fan", "enqueue"},
                u : Recipients \cup {None}, tokens : SUBSET Tokens, todo : SUBSET Recipients]

\* A call has someone to send to, and enqueues a campaign that exists.
NoticeCallOK(k, row) ==
    /\ k.pc = "send" => k.u \in Recipients
    /\ k.pc = "enqueue" => row # "NONE"

\* Whom a run of the job has still to serve.
Left(k) == {u \in Recipients : u \in k.todo \/ (k.pc = "send" /\ u = k.u)}

\* What a run of the job keeps true: of the audience it misses nobody, and
\* those it has still to serve have not been served by it.
RunOK(k, c, box) ==
    \/ k = N!Idle
    \/ /\ k.pc # "idle"
       /\ c.row # "NONE"
       /\ \A u \in c.audience : u \in Left(k) \/ box[u].campaign > 0
       /\ \A u \in Left(k) : box[u].campaign < c.runs
       /\ k.pc = "send" => k.u \notin k.todo

CampaignOK(c, box) ==
    /\ c.row = "SENT" => \A u \in c.audience : box[u].campaign > 0
    /\ c.row = "NONE" => c.job = "none"
    /\ \A u \in Recipients : box[u].campaign <= c.runs

NoticesInv ==
    /\ users \subseteq Recipients
    /\ inbox \in [Recipients -> Boxes]
    /\ campaign \in Campaigns /\ campaign.audience \subseteq users
    /\ noticeTask \in [N!Callers -> NoticeCalls]
    /\ \A t \in N!Callers : NoticeCallOK(noticeTask[t], campaign.row)
    /\ CampaignOK(campaign, inbox)
    /\ RunOK(noticeTask[Worker], campaign, inbox)

LEMMA WorkerApart == Worker \in N!Callers /\ Worker \notin Senders /\ Senders \subseteq N!Callers
  BY ServicesAssumption DEF N!NoticesAssumption, N!Callers

LEMMA NoticeIdle ==
    /\ N!Idle \in NoticeCalls /\ N!Idle.pc = "idle" /\ N!Idle.u = None
    /\ N!Idle.todo = {} /\ N!Idle.tokens = {}
  BY DEF N!Idle, NoticeCalls

LEMMA NoticeCallMoves ==
    ASSUME NEW calls \in [N!Callers -> NoticeCalls], NEW row, NEW row2,
           \A t \in N!Callers : NoticeCallOK(calls[t], row),
           row # "NONE" => row2 # "NONE",
           NEW t \in N!Callers, NEW k \in NoticeCalls, NoticeCallOK(k, row2)
    PROVE  /\ [calls EXCEPT ![t] = k] \in [N!Callers -> NoticeCalls]
           /\ \A s \in N!Callers : NoticeCallOK([calls EXCEPT ![t] = k][s], row2)
           /\ [calls EXCEPT ![t] = k][t] = k
           /\ t # Worker => [calls EXCEPT ![t] = k][Worker] = calls[Worker]
  BY WorkerApart DEF NoticeCallOK

\* A call of another service leaves the job's run alone.
LEMMA SenderMoves ==
    ASSUME NoticesInv, NEW t \in Senders, NEW k \in NoticeCalls,
           noticeTask' = [noticeTask EXCEPT ![t] = k],
           users' = users, inbox' \in [Recipients -> Boxes],
           \A u \in Recipients : inbox'[u].campaign = inbox[u].campaign,
           campaign' \in Campaigns, campaign'.audience \subseteq users,
           campaign'.runs = campaign.runs,
           \/ campaign'.row = campaign.row /\ campaign'.audience = campaign.audience
           \/ campaign.row = "NONE" /\ campaign'.row = "CREATED",
           campaign'.row = "NONE" => campaign'.job = "none",
           NoticeCallOK(k, campaign'.row)
    PROVE  NoticesInv'
  <1>1. campaign.row # "NONE" => campaign'.row # "NONE"
    OBVIOUS
  <1>2. /\ noticeTask' \in [N!Callers -> NoticeCalls]
        /\ \A s \in N!Callers : NoticeCallOK(noticeTask'[s], campaign'.row)
        /\ noticeTask'[Worker] = noticeTask[Worker]
    BY ZenonT(60), <1>1, WorkerApart, NoticeCallMoves DEF NoticesInv
  <1>3. CampaignOK(campaign', inbox')
    BY DEF NoticesInv, CampaignOK, Campaigns
  <1>4. RunOK(noticeTask'[Worker], campaign', inbox')
    <2>1. RunOK(noticeTask[Worker], campaign, inbox) /\ campaign.audience \subseteq Recipients
      BY DEF NoticesInv
    <2>2. \A u \in Left(noticeTask[Worker]) : u \in Recipients
      BY DEF Left
    <2> QED
      BY <1>2, <2>1, <2>2 DEF RunOK
  <1> QED
    BY <1>2, <1>3, <1>4 DEF NoticesInv

\* A step of the job: it moves on, and what it leaves is served.
LEMMA WorkerMoves ==
    ASSUME NoticesInv, NEW k \in NoticeCalls,
           noticeTask' = [noticeTask EXCEPT ![Worker] = k],
           users' = users, inbox' \in [Recipients -> Boxes], campaign' \in Campaigns,
           campaign'.audience = campaign.audience,
           campaign.row # "NONE" => campaign'.row # "NONE",
           NoticeCallOK(k, campaign'.row),
           CampaignOK(campaign', inbox'), RunOK(k, campaign', inbox')
    PROVE  NoticesInv'
  <1>1. /\ noticeTask' \in [N!Callers -> NoticeCalls]
        /\ \A s \in N!Callers : NoticeCallOK(noticeTask'[s], campaign'.row)
        /\ noticeTask'[Worker] = k
    BY ZenonT(60), WorkerApart, NoticeCallMoves DEF NoticesInv
  <1> QED
    BY <1>1 DEF NoticesInv

LEMMA SendKeeps ==
    ASSUME NoticesInv, NEW t \in N!Callers, N!Send(t)
    PROVE  NoticesInv'
  <1>1. PICK k0 \in NoticeCalls : k0 = noticeTask[t] /\ k0.pc = "send"
    BY DEF NoticesInv, N!Send, N!At
  <1>2. PICK u \in Recipients : u = k0.u
    BY <1>1 DEF NoticesInv, NoticeCallOK
  <1>3. PICK k \in NoticeCalls : /\ k = [k0 EXCEPT !.pc = "devices"]
                                 /\ k.pc = "devices" /\ k.todo = k0.todo
    <2>1. [k0 EXCEPT !.pc = "devices"] \in NoticeCalls
      BY DEF NoticeCalls
    <2>2. /\ [k0 EXCEPT !.pc = "devices"].pc = "devices"
          /\ [k0 EXCEPT !.pc = "devices"].todo = k0.todo
      BY DEF NoticeCalls
    <2> QED
      BY <2>1, <2>2
  <1>4. noticeTask' = [noticeTask EXCEPT ![t] = k] /\ UNCHANGED <<users, campaign>>
    BY <1>1, <1>3 DEF N!Send
  <1>5. PICK b \in Boxes : b = inbox[u]
    BY DEF NoticesInv
  <1>6. /\ inbox \in [Recipients -> Boxes] /\ campaign \in Campaigns
        /\ campaign.audience \subseteq users
    BY DEF NoticesInv
  <1>7. NoticeCallOK(k, campaign.row)
    BY <1>3 DEF NoticeCallOK
  <1>8. CASE t = Worker
    <2> DEFINE b2 == [b EXCEPT !.campaign = @ + 1]
    <2>1. b2 \in Boxes /\ b2.campaign = b.campaign + 1
      BY DEF Boxes
    <2>2. inbox' = [inbox EXCEPT ![u] = b2]
      BY <1>1, <1>2, <1>5, <1>8 DEF N!Send, Boxes
    <2> HIDE DEF b2
    <2>3. /\ inbox' \in [Recipients -> Boxes]
          /\ \A w \in Recipients : inbox'[w].campaign = IF w = u THEN inbox[u].campaign + 1
                                                        ELSE inbox[w].campaign
      BY <1>5, <1>6, <2>1, <2>2
    <2>4. RunOK(k0, campaign, inbox)
      BY <1>1, <1>8 DEF NoticesInv
    <2>5. /\ \A w \in Recipients : w \in Left(k) <=> w \in Left(k0) /\ w # u
          /\ u \in Left(k0)
      BY <1>1, <1>2, <1>3, <2>4, NoticeIdle DEF Left, RunOK
    <2>6. \A w \in Recipients : inbox[w].campaign \in Nat
      BY <1>6 DEF Boxes
    <2>7. CampaignOK(campaign, inbox')
      BY <1>1, <2>3, <2>4, <2>5, <2>6, <1>6, NoticeIdle DEF CampaignOK, RunOK, NoticesInv, Campaigns
    <2>8. RunOK(k, campaign, inbox')
      <3>1. campaign.audience \subseteq Recipients
        BY <1>6 DEF Campaigns
      <3>2. ASSUME NEW w \in campaign.audience PROVE w \in Left(k) \/ inbox'[w].campaign > 0
        BY <1>1, <2>3, <2>4, <2>5, <2>6, <3>1, NoticeIdle DEF RunOK
      <3>3. ASSUME NEW w \in Left(k) PROVE inbox'[w].campaign < campaign.runs
        <4>1. w \in Recipients
          BY DEF Left
        <4> QED
          BY <1>1, <2>3, <2>4, <2>5, <3>3, <4>1, NoticeIdle DEF RunOK
      <3> QED
        BY <1>1, <1>3, <2>4, <3>2, <3>3, NoticeIdle DEF RunOK
    <2> QED
      BY <1>4, <1>6, <1>7, <1>8, <2>3, <2>7, <2>8, WorkerMoves
  <1>9. CASE t # Worker
    <2> DEFINE b2 == [b EXCEPT !.other = @ + 1]
    <2>1. b2 \in Boxes /\ b2.campaign = b.campaign
      BY DEF Boxes
    <2>2. inbox' = [inbox EXCEPT ![u] = b2]
      BY <1>1, <1>2, <1>5, <1>9 DEF N!Send, Boxes
    <2> HIDE DEF b2
    <2>3. /\ inbox' \in [Recipients -> Boxes]
          /\ \A w \in Recipients : inbox'[w].campaign = inbox[w].campaign
      BY <1>5, <1>6, <2>1, <2>2
    <2>4. t \in Senders
      BY <1>9 DEF N!Callers
    <2>5. campaign.row = "NONE" => campaign.job = "none"
      BY DEF NoticesInv, CampaignOK
    <2> QED
      BY <1>4, <1>6, <1>7, <2>3, <2>4, <2>5, SenderMoves
  <1> QED
    BY <1>8, <1>9

\* Neither the devices nor the push change who has been served.
LEMMA PushKeeps ==
    ASSUME NoticesInv, NEW t \in N!Callers,
           N!FindDevices(t) \/ (\E invalid \in SUBSET Tokens : N!Push(t, invalid))
    PROVE  NoticesInv'
  <1>1. PICK k0 \in NoticeCalls : k0 = noticeTask[t] /\ k0.pc \in {"devices", "push"}
    BY DEF NoticesInv, N!FindDevices, N!Push, N!At
  <1>2. UNCHANGED <<users, inbox, campaign>>
    BY DEF N!FindDevices, N!Push, N!deviceVars
  <1>3. /\ inbox \in [Recipients -> Boxes] /\ campaign \in Campaigns
        /\ campaign.audience \subseteq users /\ CampaignOK(campaign, inbox)
    BY DEF NoticesInv
  <1>4. PICK k \in NoticeCalls :
            /\ noticeTask' = [noticeTask EXCEPT ![t] = k]
            /\ t = Worker => k.pc \in {"push", "fan"} /\ k.todo = k0.todo
            /\ t # Worker => k.pc \in {"push", "idle"}
    <2>1. CASE N!Sent(t)
      <3>1. CASE t = Worker
        <4> DEFINE k == [N!Idle EXCEPT !.pc = "fan", !.todo = k0.todo]
        <4>1. k \in NoticeCalls /\ k.pc = "fan" /\ k.todo = k0.todo
          BY DEF N!Idle, NoticeCalls
        <4> QED
          BY <1>1, <2>1, <3>1, <4>1 DEF N!Sent
      <3>2. CASE t # Worker
        BY <2>1, <3>2, NoticeIdle DEF N!Sent, N!Return
      <3> QED
        BY <3>1, <3>2
    <2>2. ASSUME NEW tokens \in SUBSET Tokens,
                 noticeTask' = [noticeTask EXCEPT ![t].pc = "push", ![t].tokens = tokens]
          PROVE  \E k \in NoticeCalls :
                     /\ noticeTask' = [noticeTask EXCEPT ![t] = k]
                     /\ k.pc = "push" /\ k.todo = k0.todo
      <3> DEFINE k == [k0 EXCEPT !.pc = "push", !.tokens = tokens]
      <3>1. k \in NoticeCalls /\ k.pc = "push" /\ k.todo = k0.todo
        BY DEF NoticeCalls
      <3>2. noticeTask' = [noticeTask EXCEPT ![t] = k]
        BY <1>1, <2>2 DEF NoticesInv, NoticeCalls
      <3> QED
        BY <3>1, <3>2
    <2>3. N!Sent(t) \/ \E tokens \in SUBSET Tokens :
              noticeTask' = [noticeTask EXCEPT ![t].pc = "push", ![t].tokens = tokens]
      BY DEF N!FindDevices, N!Push
    <2> QED
      BY <2>1, <2>2, <2>3
  <1>5. NoticeCallOK(k, campaign.row)
    BY <1>4 DEF NoticeCallOK
  <1>6. CASE t = Worker
    <2>1. RunOK(k0, campaign, inbox)
      BY <1>1, <1>6 DEF NoticesInv
    <2>2. \A w : w \in Left(k) <=> w \in Left(k0)
      BY <1>1, <1>4, <1>6 DEF Left
    <2>3. RunOK(k, campaign, inbox)
      BY <1>1, <1>4, <1>6, <2>1, <2>2, NoticeIdle DEF RunOK
    <2> QED
      BY <1>2, <1>3, <1>4, <1>5, <1>6, <2>3, WorkerMoves
  <1>7. CASE t # Worker
    <2>1. t \in Senders
      BY <1>7 DEF N!Callers
    <2>2. campaign.row = "NONE" => campaign.job = "none"
      BY DEF NoticesInv, CampaignOK
    <2> QED
      BY <1>2, <1>3, <1>4, <1>5, <2>1, <2>2, SenderMoves
  <1> QED
    BY <1>6, <1>7

LEMMA SendersKeep ==
    ASSUME NoticesInv, NEW t \in Senders,
           \/ N!CreateCampaign(t) \/ (\E delay \in BOOLEAN : N!Enqueue(t, delay))
           \/ (\E u \in Recipients : N!Notify(t, u)) \/ N!Throw(t)
    PROVE  NoticesInv'
  <1>1. /\ inbox \in [Recipients -> Boxes] /\ campaign \in Campaigns
        /\ campaign.audience \subseteq users /\ users \subseteq Recipients
        /\ campaign.row = "NONE" => campaign.job = "none"
        /\ t \in N!Callers
    BY WorkerApart DEF NoticesInv, CampaignOK
  <1>2. CASE N!CreateCampaign(t)
    <2> DEFINE k == [N!Idle EXCEPT !.pc = "enqueue"]
    <2>1. k \in NoticeCalls /\ k.pc = "enqueue"
      BY DEF N!Idle, NoticeCalls
    <2>2. noticeTask' = [noticeTask EXCEPT ![t] = k] /\ UNCHANGED <<users, inbox>>
      BY <1>2 DEF N!CreateCampaign, N!Start
    <2>3. /\ campaign' \in Campaigns /\ campaign'.audience = users /\ campaign'.runs = campaign.runs
          /\ campaign.row = "NONE" /\ campaign'.row = "CREATED"
      BY <1>1, <1>2 DEF N!CreateCampaign, Campaigns
    <2>4. NoticeCallOK(k, campaign'.row)
      BY <2>1, <2>3 DEF NoticeCallOK
    <2> HIDE DEF k
    <2>5. inbox' \in [Recipients -> Boxes]
          /\ \A u \in Recipients : inbox'[u].campaign = inbox[u].campaign
      BY <1>1, <2>2
    <2> QED
      BY <2>1, <2>2, <2>3, <2>4, <2>5, SenderMoves
  <1>3. ASSUME NEW delay \in BOOLEAN, N!Enqueue(t, delay) PROVE NoticesInv'
    <2>1. noticeTask' = [noticeTask EXCEPT ![t] = N!Idle] /\ UNCHANGED <<users, inbox>>
      BY <1>3 DEF N!Enqueue, N!Return
    <2>2. campaign.row # "NONE"
      BY <1>1, <1>3 DEF NoticesInv, NoticeCallOK, N!Enqueue, N!At
    <2>3. /\ campaign' \in Campaigns /\ campaign'.audience = campaign.audience
          /\ campaign'.runs = campaign.runs /\ campaign'.row = campaign.row
      BY <1>1, <1>3 DEF N!Enqueue, Campaigns
    <2>4. NoticeCallOK(N!Idle, campaign'.row)
      BY NoticeIdle DEF NoticeCallOK
    <2> QED
      BY <1>1, <2>1, <2>2, <2>3, <2>4, NoticeIdle, SenderMoves
  <1>4. ASSUME NEW u \in Recipients, N!Notify(t, u) PROVE NoticesInv'
    <2> DEFINE k == [N!Idle EXCEPT !.pc = "send", !.u = u]
    <2>1. k \in NoticeCalls /\ k.pc = "send" /\ k.u = u
      BY DEF N!Idle, NoticeCalls
    <2>2. noticeTask' = [noticeTask EXCEPT ![t] = k] /\ UNCHANGED <<users, inbox, campaign>>
      BY <1>4 DEF N!Notify, N!Start
    <2>3. NoticeCallOK(k, campaign.row)
      BY <2>1 DEF NoticeCallOK
    <2> HIDE DEF k
    <2> QED
      BY <1>1, <2>1, <2>2, <2>3, SenderMoves
  <1>5. CASE N!Throw(t)
    <2>1. noticeTask' = [noticeTask EXCEPT ![t] = N!Idle] /\ UNCHANGED <<users, inbox, campaign>>
      BY <1>5 DEF N!Throw, N!Return
    <2>2. NoticeCallOK(N!Idle, campaign.row)
      BY NoticeIdle DEF NoticeCallOK
    <2> QED
      BY <1>1, <2>1, <2>2, NoticeIdle, SenderMoves
  <1> QED
    BY <1>2, <1>3, <1>4, <1>5

\* A run of the job starts, goes on, ends or is given up.
LEMMA CampaignKeeps ==
    ASSUME NoticesInv, N!CampaignNext
    PROVE  NoticesInv'
  <1>1. /\ inbox \in [Recipients -> Boxes] /\ campaign \in Campaigns
        /\ campaign.audience \subseteq users /\ users \subseteq Recipients
        /\ CampaignOK(campaign, inbox) /\ Worker \in N!Callers
        /\ \A u \in Recipients : inbox[u].campaign \in Nat
    BY WorkerApart DEF NoticesInv, Boxes
  <1>2. PICK k0 \in NoticeCalls : k0 = noticeTask[Worker] /\ RunOK(k0, campaign, inbox)
    BY <1>1 DEF NoticesInv
  <1>3. CASE N!JobDue
    <2>1. /\ UNCHANGED <<users, inbox, noticeTask>> /\ campaign.row # "NONE"
          /\ campaign' \in Campaigns /\ campaign'.audience = campaign.audience
          /\ campaign'.row = campaign.row /\ campaign'.runs = campaign.runs
      BY <1>1, <1>3 DEF N!JobDue, Campaigns, CampaignOK
    <2>2. CampaignOK(campaign', inbox')
      BY <1>1, <2>1 DEF CampaignOK
    <2>3. RunOK(noticeTask'[Worker], campaign', inbox')
      BY <1>2, <2>1 DEF RunOK
    <2> QED
      BY <2>1, <2>2, <2>3 DEF NoticesInv, NoticeCallOK
  <1>4. CASE N!Process
    <2> DEFINE k == [N!Idle EXCEPT !.pc = "fan", !.todo = users]
    <2>1. k \in NoticeCalls /\ k.pc = "fan" /\ k.todo = users
      BY <1>1 DEF N!Idle, NoticeCalls
    <2>2. noticeTask' = [noticeTask EXCEPT ![Worker] = k] /\ UNCHANGED <<users, inbox>>
      BY <1>4 DEF N!Process, N!Start
    <2>3. /\ campaign.row # "NONE"
          /\ campaign' \in Campaigns /\ campaign'.audience = campaign.audience
          /\ campaign'.row = campaign.row /\ campaign'.runs = campaign.runs + 1
      <3>1. campaign.row # "NONE"
        BY <1>1, <1>4 DEF N!Process, CampaignOK
      <3>2. campaign' = [campaign EXCEPT !.job = "active", !.runs = @ + 1]
        BY <1>4 DEF N!Process
      <3>3. campaign.runs + 1 \in Nat
        BY <1>1 DEF Campaigns
      <3> QED
        BY <1>1, <3>1, <3>2, <3>3 DEF Campaigns
    <2> HIDE DEF k
    <2>4. \A u \in Recipients : inbox[u].campaign < campaign'.runs
      BY <1>1, <2>3 DEF CampaignOK, Campaigns
    <2>5. CampaignOK(campaign', inbox')
      <3>1. \A u \in Recipients : inbox'[u].campaign <= campaign'.runs
        BY <1>1, <2>2, <2>3, <2>4 DEF Campaigns
      <3> QED
        BY <1>1, <2>2, <2>3, <3>1 DEF CampaignOK
    <2>6. RunOK(k, campaign', inbox')
      BY <1>1, <2>1, <2>2, <2>3, <2>4 DEF RunOK, Left
    <2>7. NoticeCallOK(k, campaign'.row)
      BY <2>1 DEF NoticeCallOK
    <2> QED
      BY <1>1, <2>1, <2>2, <2>3, <2>5, <2>6, <2>7, WorkerMoves
  <1>5. ASSUME NEW u \in Recipients, N!FanOut(u) PROVE NoticesInv'
    <2> DEFINE k == [k0 EXCEPT !.pc = "send", !.u = u, !.todo = @ \ {u}]
    <2>1. k \in NoticeCalls /\ k.pc = "send" /\ k.u = u /\ k.todo = k0.todo \ {u}
      BY DEF NoticeCalls
    <2>2. /\ noticeTask' = [noticeTask EXCEPT ![Worker] = k]
          /\ UNCHANGED <<users, inbox, campaign>> /\ k0.pc = "fan" /\ u \in k0.todo
      BY <1>1, <1>2, <1>5 DEF NoticesInv, NoticeCalls, N!FanOut, N!At
    <2> HIDE DEF k
    <2>3. \A w : w \in Left(k) <=> w \in Left(k0)
      BY <2>1, <2>2 DEF Left
    <2>4. RunOK(k, campaign, inbox)
      BY <1>2, <2>1, <2>2, <2>3, NoticeIdle DEF RunOK
    <2>5. NoticeCallOK(k, campaign.row)
      BY <2>1 DEF NoticeCallOK
    <2> QED
      BY <1>1, <2>1, <2>2, <2>4, <2>5, WorkerMoves
  <1>6. ASSUME N!MarkSent \/ N!JobFails \/ N!WorkerStops PROVE NoticesInv'
    <2>1. /\ noticeTask' = [noticeTask EXCEPT ![Worker] = N!Idle] /\ UNCHANGED <<users, inbox>>
          /\ k0 # N!Idle
      BY <1>2, <1>6, NoticeIdle DEF N!MarkSent, N!AllServed, N!JobFails, N!WorkerStops, N!Return,
                                    N!At
    <2>2. campaign.row # "NONE"
      BY <1>2, <2>1 DEF RunOK
    <2>3. /\ campaign' \in Campaigns /\ campaign'.audience = campaign.audience
          /\ campaign'.runs = campaign.runs /\ campaign'.row \in {campaign.row, "SENT"}
      BY <1>1, <1>6 DEF N!MarkSent, N!JobFails, N!WorkerStops, Campaigns
    <2>4. N!MarkSent => \A u \in campaign.audience : inbox[u].campaign > 0
      BY <1>2, NoticeIdle DEF N!MarkSent, N!AllServed, N!At, RunOK, Left
    <2>5. ~ N!MarkSent => campaign'.row = campaign.row
      BY <1>1, <1>6 DEF N!JobFails, N!WorkerStops, Campaigns
    <2>6. CampaignOK(campaign', inbox')
      BY <1>1, <2>1, <2>2, <2>3, <2>4, <2>5 DEF CampaignOK
    <2>7. RunOK(N!Idle, campaign', inbox') /\ NoticeCallOK(N!Idle, campaign'.row)
      BY NoticeIdle DEF RunOK, NoticeCallOK
    <2> QED
      BY <1>1, <2>1, <2>2, <2>3, <2>6, <2>7, NoticeIdle, WorkerMoves
  <1> QED
    BY <1>3, <1>4, <1>5, <1>6 DEF N!CampaignNext

LEMMA NoticesInit == Init => NoticesInv
  <1> SUFFICES ASSUME N!Init PROVE NoticesInv
    BY DEF Init
  <1>1. /\ users = {} /\ inbox = [u \in Recipients |-> [campaign |-> 0, other |-> 0]]
        /\ campaign = [row |-> "NONE", job |-> "none", runs |-> 0, audience |-> {}]
        /\ noticeTask = [t \in N!Callers |-> N!Idle]
    BY DEF N!Init
  <1>2. inbox \in [Recipients -> Boxes] /\ campaign \in Campaigns
    BY <1>1 DEF Boxes, Campaigns
  <1>3. CampaignOK(campaign, inbox)
    BY <1>1 DEF CampaignOK
  <1>4. NoticeCallOK(N!Idle, campaign.row) /\ RunOK(N!Idle, campaign, inbox)
    BY NoticeIdle DEF NoticeCallOK, RunOK
  <1> QED
    BY <1>1, <1>2, <1>3, <1>4, NoticeIdle, WorkerApart DEF NoticesInv

LEMMA NoticesNext == NoticesInv /\ [Next]_vars => NoticesInv'
  <1> SUFFICES ASSUME NoticesInv, [Next]_vars PROVE NoticesInv'
    OBVIOUS
  <1>1. ASSUME NEW u \in Recipients, N!Register(u) PROVE NoticesInv'
    <2>1. UNCHANGED <<inbox, campaign, noticeTask>> /\ users' = users \cup {u}
      BY <1>1 DEF N!Register
    <2> QED
      BY <2>1 DEF NoticesInv, NoticeCallOK, CampaignOK, RunOK, Left
  <1>2. ASSUME UNCHANGED <<users, inbox, campaign, noticeTask>> PROVE NoticesInv'
    BY <1>2 DEF NoticesInv, NoticeCallOK, CampaignOK, RunOK, Left
  <1>3. CASE N!UserNext
    BY <1>1, <1>2, <1>3 DEF N!UserNext, N!UpdatePreferences, N!RegisterDevice, N!UnregisterDevice
  <1>4. CASE N!Next
    <2>1. CASE \E t \in N!Callers : N!SendNext(t)
      BY <2>1, SendKeeps, PushKeeps DEF N!SendNext
    <2>2. ASSUME NEW t \in Senders, N!CreateCampaign(t)
                 \/ (\E delay \in BOOLEAN : N!Enqueue(t, delay))
                 \/ (\E u \in Recipients : N!Notify(t, u)) \/ N!Throw(t)
          PROVE  NoticesInv'
      BY <2>2, SendersKeep
    <2> QED
      BY <1>3, <1>4, <2>1, <2>2, CampaignKeeps DEF N!Next
  <1>5. CASE UNCHANGED noticeVars
    BY <1>2, <1>5 DEF noticeVars
  <1> QED
    BY <1>4, <1>5 DEF Next, OffersStep, PricingStep, NoticesStep, TicketsStep, vars

\* However often the job of a campaign is stopped, fails and is run again, the
\* campaign is marked as sent only when its whole audience has it, and nobody
\* has it more often than the job ran (notifications.processor.ts:32-56).
THEOREM CampaignsReachAll == Spec => []SentToAll
  <1>1. NoticesInv => SentToAll
    BY DEF NoticesInv, CampaignOK, SentToAll, N!SentToAll
  <1> QED
    BY <1>1, NoticesInit, NoticesNext, PTL DEF Spec

-----------------------------------------------------------------------------
(* Types: what the invariants above leave open, and how much there may be. *)

\* A part is no more than the whole.
LEMMA PartOfSum ==
    ASSUME NEW S, IsFiniteSet(S), NEW f, \A x \in S : f[x] \in Nat, NEW y \in S
    PROVE  f[y] <= SumFunctionOnSet(f, S)
  <1> DEFINE Q == {W \in SUBSET S : SumFunctionOnSet(f, W) \in Nat}
  <1>1. {} \in Q
    BY SumEmpty
  <1>2. ASSUME NEW W \in SUBSET S, NEW x \in S \ W, W \in Q
        PROVE  W \cup {x} \in Q
    <2>1. IsFiniteSet(W) /\ Ints(f, W \cup {x}) /\ f[x] \in Nat
      BY FS_Subset DEF Ints
    <2>2. SumFunctionOnSet(f, W \cup {x}) = f[x] + SumFunctionOnSet(f, W)
      BY <2>1, SumAdd
    <2> QED
      BY <1>2, <2>1, <2>2
  <1> DEFINE R == S \ {y}
  <1>3. IsFiniteSet(R) /\ Ints(f, S) /\ f[y] \in Nat
    BY FS_RemoveElement DEF Ints
  <1>4. SumFunctionOnSet(f, R) \in Nat
    <2> DEFINE Q2 == {W \in SUBSET R : SumFunctionOnSet(f, W) \in Nat}
    <2>1. {} \in Q2
      BY <1>1
    <2>2. ASSUME NEW W \in SUBSET R, NEW x \in R \ W, W \in Q2
          PROVE  W \cup {x} \in Q2
      BY <1>2, <2>2
    <2> HIDE DEF Q2
    <2>3. R \in Q2
      BY <1>3, <2>1, <2>2, SetInduction
    <2> QED
      BY <2>3 DEF Q2
  <1>5. SumFunctionOnSet(f, S) = f[y] + SumFunctionOnSet(f, R)
    BY <1>3, SumRemove
  <1> QED
    BY <1>3, <1>4, <1>5

OfferSizes ==
    /\ accruals \subseteq Users /\ claims \subseteq Users
    /\ \A u \in Users : redeemed[u] <= MaxRedeemed
    /\ station.given <= MaxStock
    /\ \A t \in Tasks : offerTask[t].pc = "claim" => offerTask[t].u \in Users

\* The call that moves claims for a user, or for nobody.
ClaimStep(t) ==
    \E k : (k.pc = "claim" => k.u \in Users) /\ offerTask' = [offerTask EXCEPT ![t] = k]

LEMMA ClaimsMove ==
    ASSUME PayoutInv, OfferSizes, NEW t \in Tasks, ClaimStep(t)
    PROVE  \A s \in Tasks : offerTask'[s].pc = "claim" => offerTask'[s].u \in Users
  BY DEF PayoutInv, OfferSizes, ClaimStep

LEMMA ClaimSteps ==
    ASSUME PayoutInv, OfferSizes, NEW t \in Tasks,
           \/ F!Return(t)
           \/ \E pc : pc # "claim" /\ F!Goto(t, pc)
           \/ \E pc, todo, u : (pc = "claim" => u \in Users) /\ F!Call(t, pc, u, todo)
    PROVE  ClaimStep(t)
  <1>1. offerTask[t] \in TaskRecords /\ F!Idle.pc = "idle"
    BY DEF PayoutInv, F!Idle
  <1>2. CASE F!Return(t)
    BY <1>1, <1>2 DEF F!Return, ClaimStep
  <1>3. ASSUME NEW pc, pc # "claim", F!Goto(t, pc) PROVE ClaimStep(t)
    <2> DEFINE k == [offerTask[t] EXCEPT !.pc = pc]
    <2>1. k.pc # "claim"
      BY <1>1, <1>3 DEF TaskRecords
    <2>2. offerTask' = [offerTask EXCEPT ![t] = k]
      BY <1>3 DEF F!Goto
    <2> HIDE DEF k
    <2> QED
      BY <2>1, <2>2 DEF ClaimStep
  <1>4. ASSUME NEW pc, NEW todo, NEW u, pc = "claim" => u \in Users, F!Call(t, pc, u, todo)
        PROVE  ClaimStep(t)
    <2> DEFINE k == [pc |-> pc, u |-> u, todo |-> todo]
    <2>1. k.pc = "claim" => k.u \in Users
      BY <1>4
    <2>2. offerTask' = [offerTask EXCEPT ![t] = k]
      BY <1>4 DEF F!Call
    <2> HIDE DEF k
    <2> QED
      BY <2>1, <2>2 DEF ClaimStep
  <1> QED
    BY <1>2, <1>3, <1>4

LEMMA OfferSizesNext ==
    ASSUME PayoutInv, StockInv, CountInv, OfferSizes, [Next]_vars
    PROVE  OfferSizes'
  <1> USE DEF F!OnlyTask, F!promoVars, F!partnerVars, F!swapVars
  <1>0. /\ redeemed \in [Users -> Nat] /\ station \in StationRecords
        /\ offerTask \in [Tasks -> TaskRecords] /\ MaxRedeemed \in Nat /\ MaxStock \in Nat
    BY ServicesAssumption DEF CountInv, StockInv, PayoutInv, F!OffersAssumption
  <1>1. ASSUME NEW t \in Tasks, ClaimStep(t), UNCHANGED <<accruals, claims, redeemed>>,
               station'.given = station.given
        PROVE  OfferSizes'
    BY <1>1, ClaimsMove DEF OfferSizes
  <1>2. ASSUME NEW t \in Tasks,
               \/ \E u \in Users :
                     F!Validate(t, u) \/ F!RedeemCode(t, u) \/ F!Claim(t, u) \/ F!Reserve(t, u)
               \/ F!ProcessPayouts(t)
        PROVE  OfferSizes'
    <2>1. ClaimStep(t)
      BY <1>2, ClaimSteps DEF F!Validate, F!RedeemCode, F!Claim, F!Reserve, F!ProcessPayouts
    <2>2. F!OnlyTask
      BY <1>2 DEF F!Validate, F!RedeemCode, F!Claim, F!Reserve, F!ProcessPayouts
    <2> QED
      BY <1>1, <2>1, <2>2
  <1>3. ASSUME NEW t \in Tasks,
               F!CountTotal(t) \/ F!CountUser(t) \/ F!Pay(t) \/ F!PayFails(t) \/ F!Throw(t)
        PROVE  OfferSizes'
    <2>1. ClaimStep(t)
      BY <1>3, ClaimSteps DEF F!CountTotal, F!CountUser, F!Pay, F!PayFails, F!Throw
    <2>2. F!OnlyTask
      BY <1>3 DEF F!CountTotal, F!CountUser, F!Pay, F!PayFails, F!Throw
    <2> QED
      BY <1>1, <2>1, <2>2
  <1>4. ASSUME NEW t \in Tasks, F!Take(t) \/ F!Release(t) \/ F!Reserved(t)
        PROVE  OfferSizes'
    <2>1. ClaimStep(t)
      BY <1>4, ClaimSteps DEF F!Take, F!Release, F!Reserved
    <2>2. station'.given = station.given /\ UNCHANGED <<accruals, claims, redeemed>>
      BY <1>0, <1>4 DEF F!Take, F!Release, F!Reserved, StationRecords
    <2> QED
      BY <1>1, <2>1, <2>2
  <1>5. ASSUME NEW t \in Tasks, F!Redeem(t) PROVE OfferSizes'
    <2>1. ClaimStep(t) /\ UNCHANGED <<accruals, claims, station>>
      BY <1>5, ClaimSteps DEF F!Redeem
    <2>2. Total < MaxRedeemed
      BY <1>0, <1>5, SameSums DEF F!Redeem, F!Redeemed, Total
    <2>3. Total \in Int
      BY CountsTyped
    <2>4. ASSUME NEW u \in Users PROVE redeemed'[u] <= MaxRedeemed
      <3>1. redeemed[u] <= Total /\ redeemed[u] \in Nat
        BY <1>0, PartOfSum, OffersConstants DEF Total
      <3>2. redeemed'[u] = redeemed[u] \/ redeemed'[u] = redeemed[u] + 1
        BY <1>0, <1>5 DEF F!Redeem
      <3> QED
        BY <1>0, <2>2, <2>3, <3>1, <3>2
    <2> QED
      BY <2>1, <2>4, ClaimsMove DEF OfferSizes
  <1>6. ASSUME NEW t \in Tasks, F!Refer(t) PROVE OfferSizes'
    <2>1. ClaimStep(t)
      BY <1>6, ClaimSteps DEF F!Refer
    <2> QED
      BY <1>1, <1>6, <2>1 DEF F!Refer
  <1>7. ASSUME NEW t \in Tasks, F!Accrue(t) PROVE OfferSizes'
    <2>1. ClaimStep(t)
      BY <1>7, ClaimSteps DEF F!Accrue
    <2>2. offerTask[t].u \in Users
      BY <1>7 DEF F!Accrue, F!At, PayoutInv, Knows
    <2>3. accruals' = accruals \cup {offerTask[t].u} /\ UNCHANGED <<claims, redeemed, station>>
      BY <1>7 DEF F!Accrue
    <2> QED
      BY <2>1, <2>2, <2>3, ClaimsMove DEF OfferSizes
  <1>8. ASSUME NEW t \in Tasks, F!ClaimWrite(t) PROVE OfferSizes'
    <2>1. ClaimStep(t)
      BY <1>8, ClaimSteps DEF F!ClaimWrite
    <2>2. offerTask[t].u \in Users
      BY <1>8 DEF F!ClaimWrite, F!At, OfferSizes
    <2>3. claims' = claims \cup {offerTask[t].u} /\ UNCHANGED <<accruals, redeemed, station>>
      BY <1>8 DEF F!ClaimWrite
    <2> QED
      BY <2>1, <2>2, <2>3, ClaimsMove DEF OfferSizes
  <1>9. ASSUME NEW t \in Tasks, (\E u \in Users : F!Payout(t, u)) \/ F!MarkPaid(t)
        PROVE  OfferSizes'
    <2>1. ClaimStep(t)
      <3>1. ASSUME NEW u \in Users, F!Payout(t, u) PROVE ClaimStep(t)
        <4> DEFINE k == [offerTask[t] EXCEPT !.pc = "paid", !.u = u]
        <4>1. k.pc # "claim" /\ offerTask' = [offerTask EXCEPT ![t] = k]
          BY <1>0, <3>1 DEF F!Payout, TaskRecords
        <4> HIDE DEF k
        <4> QED
          BY <4>1 DEF ClaimStep
      <3>2. CASE F!MarkPaid(t)
        <4> DEFINE rest == offerTask[t].todo \ {offerTask[t].u}
                   k == IF rest = {} THEN F!Idle ELSE [pc |-> "payouts", u |-> None, todo |-> rest]
        <4>1. k.pc # "claim" /\ offerTask' = [offerTask EXCEPT ![t] = k]
          BY <3>2 DEF F!MarkPaid, F!Idle
        <4> HIDE DEF k
        <4> QED
          BY <4>1 DEF ClaimStep
      <3> QED
        BY <1>9, <3>1, <3>2
    <2>2. UNCHANGED <<accruals, claims, redeemed, station>>
      BY <1>9 DEF F!Payout, F!MarkPaid
    <2> QED
      BY <1>1, <2>1, <2>2
  <1>10. ASSUME NEW l \in Limits, NEW on \in BOOLEAN, F!UpdatePromo(l, on) PROVE OfferSizes'
    BY <1>10 DEF F!UpdatePromo, OfferSizes
  <1>11. ASSUME NEW n \in 0 .. MaxStock, NEW on \in BOOLEAN, F!UpdateStation(n, on)
         PROVE  OfferSizes'
    <2>1. station'.given <= MaxStock
      BY <1>11 DEF F!UpdateStation
    <2> QED
      BY <1>11, <2>1 DEF F!UpdateStation, OfferSizes
  <1>12. CASE F!Next
    BY <1>2, <1>3, <1>4, <1>5, <1>6, <1>7, <1>8, <1>9, <1>10, <1>11, <1>12
       DEF F!Next, F!PromoNext, F!PartnerNext, F!SwapNext
  <1>13. CASE UNCHANGED offerVars
    BY <1>13 DEF offerVars, OfferSizes
  <1> QED
    BY <1>12, <1>13 DEF Next, OffersStep, PricingStep, NoticesStep, TicketsStep, vars

\* No table counts more than what was written.
Tables == [tariffs : [P!Keys -> Nat], rules : Nat, areas : Nat, config : Nat]
Within(tb, n) ==
    /\ \A k \in P!Keys : tb.tariffs[k] <= n
    /\ tb.rules <= n /\ tb.areas <= n /\ tb.config <= n
EntryOK(e) == e = P!NoEntry \/ \E v : e = P!Cached(v)

PriceSizes ==
    /\ table \in Tables /\ Within(table, writes)
    /\ writes \in Nat /\ writes <= MaxWrites
    /\ entry = [x \in P!Tables |-> entry[x]] /\ \A x \in P!Tables : EntryOK(entry[x])

LEMMA EntryMoves ==
    ASSUME PriceSizes, NEW x, NEW e, EntryOK(e), entry' = [entry EXCEPT ![x] = e],
           UNCHANGED <<table, writes>>
    PROVE  PriceSizes'
  BY DEF PriceSizes

LEMMA TableMoves ==
    ASSUME PriceSizes, NEW t, NEW x, NEW v, P!Write(t, x, v),
           [table EXCEPT ![x] = v] \in Tables, Within([table EXCEPT ![x] = v], writes + 1)
    PROVE  PriceSizes'
  <1>1. /\ writes' = writes + 1 /\ writes < MaxWrites /\ UNCHANGED entry
        /\ table' = [table EXCEPT ![x] = v] /\ MaxWrites \in Nat
    BY ServicesAssumption DEF P!Write, P!PricingAssumption
  <1> QED
    BY <1>1 DEF PriceSizes

LEMMA TariffsMove ==
    ASSUME PriceSizes, NEW t, NEW v \in [P!Keys -> Nat], \A k \in P!Keys : v[k] <= writes + 1,
           P!Write(t, "tariffs", v)
    PROVE  PriceSizes'
  <1>1. /\ [table EXCEPT !["tariffs"] = v] \in Tables
        /\ Within([table EXCEPT !["tariffs"] = v], writes + 1)
    BY DEF PriceSizes, Tables, Within
  <1> QED
    BY <1>1, TableMoves

LEMMA PriceSizesNext ==
    ASSUME PriceSizes, [Next]_vars
    PROVE  PriceSizes'
  <1>0. /\ table \in Tables /\ table.tariffs \in [P!Keys -> Nat] /\ writes \in Nat
        /\ \A k \in P!Keys : table.tariffs[k] \in Nat /\ table.tariffs[k] <= writes
        /\ table.rules \in Nat /\ table.areas \in Nat /\ table.config \in Nat
        /\ table.rules <= writes /\ table.areas <= writes /\ table.config <= writes
    BY DEF PriceSizes, Tables, Within
  <1>1. ASSUME UNCHANGED <<table, entry, writes>> PROVE PriceSizes'
    BY <1>1 DEF PriceSizes
  <1>2. ASSUME NEW t \in Tasks,
               \/ P!GetActiveTariffs(t) \/ P!GetActiveCommissionRules(t) \/ P!GetActiveAreas(t)
               \/ P!GetConfig(t) \/ P!CreateCommissionRule(t) \/ P!Read(t) \/ P!Throw(t)
               \/ \E k \in P!Keys : P!CreateTariff(t, k)
        PROVE  PriceSizes'
    BY <1>1, <1>2
       DEF P!GetActiveTariffs, P!GetActiveCommissionRules, P!GetActiveAreas, P!GetConfig, P!Miss,
           P!CreateCommissionRule, P!Read, P!Throw, P!CreateTariff
  <1>3. ASSUME NEW t \in Tasks, P!Fill(t) PROVE PriceSizes'
    <2>1. EntryOK(P!Cached(pricingTask[t].value))
      BY DEF EntryOK
    <2> QED
      BY <1>3, <2>1, EntryMoves DEF P!Fill
  <1>4. ASSUME NEW t \in Tasks, P!Delete(t) PROVE PriceSizes'
    BY <1>4, EntryMoves DEF P!Delete, EntryOK
  <1>5. ASSUME NEW x \in P!Tables, P!Expire(x) PROVE PriceSizes'
    BY <1>5, EntryMoves DEF P!Expire, EntryOK
  <1>6. ASSUME NEW t \in Tasks, P!InsertTariff(t) PROVE PriceSizes'
    <2> DEFINE v == [table.tariffs EXCEPT ![pricingTask[t].key] = @ + 1]
    <2>1. v \in [P!Keys -> Nat] /\ \A k \in P!Keys : v[k] <= writes + 1
      <3>1. PICK f \in [P!Keys -> Nat] : f = table.tariffs
        BY <1>0
      <3>2. PICK q : q = pricingTask[t].key
        OBVIOUS
      <3>3. v = [k \in P!Keys |-> IF k = q THEN f[q] + 1 ELSE f[k]]
        BY <3>1, <3>2
      <3>4. \A k \in P!Keys : v[k] \in Nat /\ v[k] <= writes + 1
        BY <1>0, <3>1, <3>3
      <3> QED
        BY <3>3, <3>4
    <2>2. P!Write(t, "tariffs", v)
      BY <1>6 DEF P!InsertTariff
    <2> HIDE DEF v
    <2> QED
      BY <2>1, <2>2, TariffsMove
  <1>7. ASSUME NEW t \in Tasks, NEW k \in P!Keys, P!DeactivateTariff(t, k) PROVE PriceSizes'
    <2> DEFINE v == [table.tariffs EXCEPT ![k] = @ - 1]
    <2>1. v \in [P!Keys -> Nat] /\ \A j \in P!Keys : v[j] <= writes + 1
      BY <1>0, <1>7 DEF P!DeactivateTariff
    <2>2. P!Write(t, "tariffs", v)
      BY <1>7 DEF P!DeactivateTariff
    <2> HIDE DEF v
    <2> QED
      BY <2>1, <2>2, TariffsMove
  <1>8. ASSUME NEW t \in Tasks, NEW k \in P!Keys, NEW to \in P!Keys, P!UpdateTariff(t, k, to)
        PROVE  PriceSizes'
    <2> DEFINE v == [table.tariffs EXCEPT ![k] = @ - 1, ![to] = @ + 1]
    <2>1. v \in [P!Keys -> Nat] /\ \A j \in P!Keys : v[j] <= writes + 1
      BY <1>0, <1>8 DEF P!UpdateTariff
    <2>2. P!Write(t, "tariffs", v)
      BY <1>8 DEF P!UpdateTariff
    <2> HIDE DEF v
    <2> QED
      BY <2>1, <2>2, TariffsMove
  <1>9. ASSUME NEW t, NEW n \in Nat, NEW x \in {"rules", "areas", "config"}, P!Write(t, x, n),
               n <= writes + 1
        PROVE  PriceSizes'
    <2>1. [table EXCEPT ![x] = n] \in Tables /\ Within([table EXCEPT ![x] = n], writes + 1)
      BY <1>0, <1>9 DEF Tables, Within
    <2> QED
      BY <1>9, <2>1, TableMoves
  <1>10. ASSUME NEW t \in Tasks,
                \/ P!InsertCommissionRule(t) \/ P!WriteArea(t) \/ P!SetConfig(t)
                \/ \E n \in 0 .. MaxWrites : P!UpdateCommissionRule(t, n)
         PROVE  PriceSizes'
    <2>1. \E x \in {"rules", "areas", "config"}, n \in Nat : P!Write(t, x, n) /\ n <= writes + 1
      BY <1>0, <1>10 DEF P!InsertCommissionRule, P!WriteArea, P!SetConfig, P!UpdateCommissionRule
    <2> QED
      BY <1>9, <2>1
  <1>11. CASE P!Next
    BY <1>2, <1>3, <1>4, <1>5, <1>6, <1>7, <1>8, <1>10, <1>11 DEF P!Next, P!Step
  <1>12. CASE UNCHANGED pricingVars
    BY <1>1, <1>12 DEF pricingVars
  <1> QED
    BY <1>11, <1>12 DEF Next, OffersStep, PricingStep, NoticesStep, TicketsStep, vars

\* Whom a call is about, and whom it has to serve, is a user.
NoticeSizes ==
    /\ muted \subseteq users
    /\ device \in [Tokens -> users \cup {None}]
    /\ \A u \in Recipients : inbox[u].campaign <= MaxNotes /\ inbox[u].other <= MaxNotes
    /\ \A t \in N!Callers : noticeTask[t].u \in users \cup {None} /\ noticeTask[t].todo \subseteq users

KnownCall(t) ==
    \E k : /\ k.u \in users \cup {None} /\ k.todo \subseteq users
           /\ noticeTask' = [noticeTask EXCEPT ![t] = k]

LEMMA KnownCalls ==
    ASSUME NoticesInv, NoticeSizes, NEW t \in N!Callers, KnownCall(t), UNCHANGED users
    PROVE  \A s \in N!Callers : /\ noticeTask'[s].u \in users' \cup {None}
                                /\ noticeTask'[s].todo \subseteq users'
  BY DEF NoticesInv, NoticeSizes, KnownCall

\* A call that begins with nobody left to serve, goes on, or ends.
LEMMA CallsKnow ==
    ASSUME NoticesInv, NoticeSizes, NEW t \in N!Callers,
           \/ N!Return(t) \/ N!Sent(t)
           \/ \E tokens : noticeTask' = [noticeTask EXCEPT ![t].pc = "push", ![t].tokens = tokens]
           \/ noticeTask' = [noticeTask EXCEPT ![t].pc = "devices"]
           \/ \E pc : \E u \in users : N!Start(t, [N!Idle EXCEPT !.pc = pc, !.u = u])
           \/ \E pc : N!Start(t, [N!Idle EXCEPT !.pc = pc])
           \/ \E pc : N!Start(t, [N!Idle EXCEPT !.pc = pc, !.todo = users])
    PROVE  KnownCall(t)
  <1>0. /\ noticeTask[t] \in NoticeCalls /\ noticeTask \in [N!Callers -> NoticeCalls]
        /\ noticeTask[t].u \in users \cup {None} /\ noticeTask[t].todo \subseteq users
    BY DEF NoticesInv, NoticeSizes
  <1>1. CASE N!Return(t)
    BY <1>1, NoticeIdle DEF N!Return, KnownCall
  <1>2. CASE N!Sent(t) /\ t = Worker
    <2> DEFINE k == [N!Idle EXCEPT !.pc = "fan", !.todo = noticeTask[t].todo]
    <2>1. k.u = None /\ k.todo \subseteq users
      BY <1>0 DEF N!Idle
    <2>2. noticeTask' = [noticeTask EXCEPT ![t] = k]
      BY <1>2 DEF N!Sent
    <2> HIDE DEF k
    <2> QED
      BY <2>1, <2>2 DEF KnownCall
  <1>3. ASSUME NEW tokens, noticeTask' = [noticeTask EXCEPT ![t].pc = "push", ![t].tokens = tokens]
        PROVE  KnownCall(t)
    <2> DEFINE k == [noticeTask[t] EXCEPT !.pc = "push", !.tokens = tokens]
    <2>1. k.u \in users \cup {None} /\ k.todo \subseteq users
      BY <1>0 DEF NoticeCalls
    <2>2. noticeTask' = [noticeTask EXCEPT ![t] = k]
      BY <1>0, <1>3 DEF NoticeCalls
    <2> HIDE DEF k
    <2> QED
      BY <2>1, <2>2 DEF KnownCall
  <1>4. CASE noticeTask' = [noticeTask EXCEPT ![t].pc = "devices"]
    <2> DEFINE k == [noticeTask[t] EXCEPT !.pc = "devices"]
    <2>1. k.u \in users \cup {None} /\ k.todo \subseteq users
      BY <1>0 DEF NoticeCalls
    <2>2. noticeTask' = [noticeTask EXCEPT ![t] = k]
      BY <1>4
    <2> HIDE DEF k
    <2> QED
      BY <2>1, <2>2 DEF KnownCall
  <1>5. ASSUME NEW k, k.u \in users \cup {None}, k.todo \subseteq users, N!Start(t, k)
        PROVE  KnownCall(t)
    BY <1>5 DEF N!Start, KnownCall
  <1>6. ASSUME NEW pc, NEW u \in users, N!Start(t, [N!Idle EXCEPT !.pc = pc, !.u = u])
        PROVE  KnownCall(t)
    <2> DEFINE k == [N!Idle EXCEPT !.pc = pc, !.u = u]
    <2>1. k.u \in users \cup {None} /\ k.todo \subseteq users
      BY DEF N!Idle
    <2>2. N!Start(t, k)
      BY <1>6
    <2> HIDE DEF k
    <2> QED
      BY <1>5, <2>1, <2>2
  <1>7. ASSUME NEW pc, N!Start(t, [N!Idle EXCEPT !.pc = pc]) PROVE KnownCall(t)
    <2> DEFINE k == [N!Idle EXCEPT !.pc = pc]
    <2>1. k.u \in users \cup {None} /\ k.todo \subseteq users
      BY DEF N!Idle
    <2>2. N!Start(t, k)
      BY <1>7
    <2> HIDE DEF k
    <2> QED
      BY <1>5, <2>1, <2>2
  <1>8. ASSUME NEW pc, N!Start(t, [N!Idle EXCEPT !.pc = pc, !.todo = users]) PROVE KnownCall(t)
    <2> DEFINE k == [N!Idle EXCEPT !.pc = pc, !.todo = users]
    <2>1. k.u \in users \cup {None} /\ k.todo \subseteq users
      BY DEF N!Idle
    <2>2. N!Start(t, k)
      BY <1>8
    <2> HIDE DEF k
    <2> QED
      BY <1>5, <2>1, <2>2
  <1> QED
    BY <1>1, <1>2, <1>3, <1>4, <1>6, <1>7, <1>8 DEF N!Sent

LEMMA NoticeSizesNext ==
    ASSUME NoticesInv, NoticeSizes, [Next]_vars
    PROVE  NoticeSizes'
  <1> USE DEF N!deviceVars
  <1>0. /\ inbox \in [Recipients -> Boxes] /\ MaxNotes \in Nat /\ Worker \in N!Callers
        /\ Senders \subseteq N!Callers /\ noticeTask \in [N!Callers -> NoticeCalls]
    BY ServicesAssumption, WorkerApart DEF NoticesInv, N!NoticesAssumption
  <1>1. ASSUME NEW t \in N!Callers, KnownCall(t), UNCHANGED <<users, device, muted, inbox>>
        PROVE  NoticeSizes'
    BY <1>1, KnownCalls DEF NoticeSizes
  <1>2. ASSUME NEW u \in Recipients, N!Register(u) PROVE NoticeSizes'
    <2>1. UNCHANGED <<device, muted, inbox, noticeTask>> /\ users \subseteq users'
      BY <1>2 DEF N!Register
    <2>2. device \in [Tokens -> users' \cup {None}]
      BY <2>1 DEF NoticeSizes
    <2>3. \A t \in N!Callers :
              noticeTask[t].u \in users' \cup {None} /\ noticeTask[t].todo \subseteq users'
      BY <2>1 DEF NoticeSizes
    <2> QED
      BY <2>1, <2>2, <2>3 DEF NoticeSizes
  <1>3. ASSUME NEW u \in Recipients, N!UpdatePreferences(u) PROVE NoticeSizes'
    BY <1>3 DEF N!UpdatePreferences, NoticeSizes
  <1>4. ASSUME NEW u \in Recipients, NEW k \in Tokens, N!RegisterDevice(u, k) \/ N!UnregisterDevice(u, k)
        PROVE  NoticeSizes'
    BY <1>4 DEF N!RegisterDevice, N!UnregisterDevice, NoticeSizes
  <1>5. ASSUME NEW t \in N!Callers, N!Send(t) PROVE NoticeSizes'
    <2>1. KnownCall(t) /\ UNCHANGED <<users, device, muted>>
      BY <1>5, CallsKnow DEF N!Send
    <2>2. ASSUME NEW w \in Recipients
          PROVE  inbox'[w].campaign <= MaxNotes /\ inbox'[w].other <= MaxNotes
      <3> DEFINE u == noticeTask[t].u
                 kind == IF t = Worker THEN "campaign" ELSE "other"
      <3>1. inbox[w] \in Boxes /\ inbox[w].campaign <= MaxNotes /\ inbox[w].other <= MaxNotes
        BY <1>0 DEF NoticeSizes
      <3>2. inbox[u][kind] < MaxNotes /\ inbox' = [inbox EXCEPT ![u][kind] = @ + 1]
        BY <1>5 DEF N!Send
      <3>3. CASE w # u
        BY <1>0, <3>1, <3>2, <3>3
      <3>4. CASE w = u
        <4>1. inbox'[w] = [inbox[w] EXCEPT ![kind] = @ + 1]
          BY <1>0, <3>2, <3>4
        <4>2. CASE t = Worker
          BY <1>0, <3>1, <3>2, <3>4, <4>1, <4>2 DEF Boxes
        <4>3. CASE t # Worker
          BY <1>0, <3>1, <3>2, <3>4, <4>1, <4>3 DEF Boxes
        <4> QED
          BY <4>2, <4>3
      <3> QED
        BY <3>3, <3>4
    <2> QED
      BY <2>1, <2>2, KnownCalls DEF NoticeSizes
  <1>6. ASSUME NEW t \in N!Callers, N!FindDevices(t) PROVE NoticeSizes'
    <2>1. KnownCall(t)
      BY <1>6, CallsKnow DEF N!FindDevices
    <2> QED
      BY <1>1, <1>6, <2>1 DEF N!FindDevices
  <1>7. ASSUME NEW t \in N!Callers, NEW invalid \in SUBSET Tokens, N!Push(t, invalid)
        PROVE  NoticeSizes'
    <2>1. KnownCall(t) /\ UNCHANGED <<users, muted, inbox>>
      BY <1>7, CallsKnow DEF N!Push
    <2>2. device' \in [Tokens -> users \cup {None}]
      BY <1>7 DEF N!Push, NoticeSizes
    <2> QED
      BY <2>1, <2>2, KnownCalls DEF NoticeSizes
  <1>8. ASSUME NEW t \in Senders,
               \/ N!CreateCampaign(t) \/ (\E delay \in BOOLEAN : N!Enqueue(t, delay))
               \/ (\E u \in Recipients : N!Notify(t, u)) \/ N!Throw(t)
        PROVE  NoticeSizes'
    <2>1. t \in N!Callers
      BY <1>0
    <2>2. KnownCall(t)
      <3>1. CASE N!CreateCampaign(t)
        <4>1. N!Start(t, [N!Idle EXCEPT !.pc = "enqueue"])
          BY <3>1 DEF N!CreateCampaign
        <4> QED
          BY <2>1, <4>1, CallsKnow
      <3>2. ASSUME NEW u \in Recipients, N!Notify(t, u) PROVE KnownCall(t)
        <4>1. u \in users /\ N!Start(t, [N!Idle EXCEPT !.pc = "send", !.u = u])
          BY <3>2 DEF N!Notify
        <4> QED
          BY <2>1, <4>1, CallsKnow
      <3>3. CASE (\E delay \in BOOLEAN : N!Enqueue(t, delay)) \/ N!Throw(t)
        BY <2>1, <3>3, CallsKnow DEF N!Enqueue, N!Throw
      <3> QED
        BY <1>8, <3>1, <3>2, <3>3
    <2>3. UNCHANGED <<users, device, muted, inbox>>
      BY <1>8 DEF N!CreateCampaign, N!Enqueue, N!Notify, N!Throw
    <2> QED
      BY <1>1, <2>1, <2>2, <2>3
  <1>9. CASE N!JobDue
    BY <1>9 DEF N!JobDue, NoticeSizes
  <1>10. CASE N!Process \/ N!MarkSent \/ N!JobFails \/ N!WorkerStops
    <2>1. KnownCall(Worker)
      BY <1>0, <1>10, CallsKnow DEF N!Process, N!MarkSent, N!JobFails, N!WorkerStops
    <2>2. UNCHANGED <<users, device, muted, inbox>>
      BY <1>10 DEF N!Process, N!MarkSent, N!JobFails, N!WorkerStops
    <2> QED
      BY <1>0, <1>1, <2>1, <2>2
  <1>11. ASSUME NEW u \in Recipients, N!FanOut(u) PROVE NoticeSizes'
    <2> DEFINE w == noticeTask[Worker]
               k == [w EXCEPT !.pc = "send", !.u = u, !.todo = @ \ {u}]
    <2>1. w \in NoticeCalls /\ w.todo \subseteq users /\ u \in w.todo
      BY <1>0, <1>11 DEF N!FanOut, NoticeSizes
    <2>2. k.u \in users \cup {None} /\ k.todo \subseteq users
      BY <2>1 DEF NoticeCalls
    <2>3. noticeTask' = [noticeTask EXCEPT ![Worker] = k]
      BY <1>0, <1>11, <2>1 DEF N!FanOut, NoticeCalls
    <2> HIDE DEF k
    <2>4. KnownCall(Worker)
      BY <2>2, <2>3 DEF KnownCall
    <2> QED
      BY <1>0, <1>1, <1>11, <2>4 DEF N!FanOut
  <1>12. CASE N!Next
    BY <1>2, <1>3, <1>4, <1>5, <1>6, <1>7, <1>8, <1>9, <1>10, <1>11, <1>12
       DEF N!Next, N!UserNext, N!SendNext, N!CampaignNext
  <1>13. CASE UNCHANGED noticeVars
    BY <1>13 DEF noticeVars, NoticeSizes
  <1> QED
    BY <1>12, <1>13 DEF Next, OffersStep, PricingStep, NoticesStep, TicketsStep, vars

Threads == [requester : 0 .. MaxReplies + 1, staff : 0 .. MaxReplies + 1]

LEMMA ThreadsNext ==
    ASSUME thread \in Threads, [Next]_vars
    PROVE  thread' \in Threads
  <1>0. MaxReplies \in Nat
    BY ServicesAssumption DEF T!TicketsAssumption
  <1>1. ASSUME NEW urgent \in BOOLEAN, T!CreateTicket(urgent) PROVE thread' \in Threads
    BY <1>0, <1>1 DEF T!CreateTicket, Threads
  <1>2. ASSUME NEW t \in Tasks, NEW author \in {"requester", "staff"}, T!ReplyWrite(t, author)
        PROVE  thread' \in Threads
    <2>1. /\ thread.requester + thread.staff <= MaxReplies
          /\ thread' = [thread EXCEPT ![author] = @ + 1]
      BY <1>2 DEF T!ReplyWrite
    <2>2. CASE author = "requester"
      BY <1>0, <2>1, <2>2 DEF Threads
    <2>3. CASE author = "staff"
      BY <1>0, <2>1, <2>3 DEF Threads
    <2> QED
      BY <2>2, <2>3
  <1>3. CASE \/ \E t \in Tasks : T!ReplyRead(t) \/ T!Throw(t)
             \/ T!Assign \/ T!Escalate \/ T!Resolve \/ T!AdminUpdate
    BY <1>3 DEF T!ReplyRead, T!Throw, T!Assign, T!Escalate, T!Resolve, T!AdminUpdate, T!Only
  <1>4. CASE UNCHANGED ticketVars
    BY <1>4 DEF ticketVars
  <1> QED
    BY <1>1, <1>2, <1>3, <1>4
       DEF T!Next, Next, OffersStep, PricingStep, NoticesStep, TicketsStep, vars

\* Whatever calls overlap or fail, every variable of the four components has
\* its type: a redemption, a battery, a tariff or a notification is counted
\* within what was allowed, a device and a call are a registered user's, and
\* what a cache holds has a time to live (promo.service.ts,
\* battery-swap.service.ts, pricing.service.ts, notifications.service.ts,
\* support.service.ts).
THEOREM ServicesTyped == Spec => []ServicesTypeOK
  <1>1. Init => OfferSizes /\ PriceSizes /\ NoticeSizes /\ thread \in Threads
    <2>1. Init => OfferSizes
      <3> SUFFICES ASSUME F!Init PROVE OfferSizes
        BY DEF Init
      <3>1. PICK n \in 0 .. MaxStock : station = [available |-> n, active |-> TRUE, given |-> n]
        BY DEF F!Init
      <3>2. MaxStock \in Nat /\ MaxRedeemed \in Nat
        BY ServicesAssumption DEF F!OffersAssumption
      <3> QED
        BY <3>1, <3>2 DEF F!Init, F!Idle, OfferSizes
    <2>2. Init => PriceSizes
      BY ServicesAssumption DEF Init, P!Init, P!PricingAssumption, PriceSizes, Tables, Within, EntryOK
    <2>3. Init => NoticeSizes
      BY ServicesAssumption DEF Init, N!Init, N!Idle, N!NoticesAssumption, NoticeSizes
    <2>4. Init => thread \in Threads
      BY ServicesAssumption DEF Init, T!Init, T!TicketsAssumption, Threads
    <2> QED
      BY <2>1, <2>2, <2>3, <2>4
  <1>2. /\ PayoutInv /\ StockInv /\ CountInv /\ NoticesInv
        /\ OfferSizes /\ PriceSizes /\ NoticeSizes /\ thread \in Threads /\ [Next]_vars
        => OfferSizes' /\ PriceSizes' /\ NoticeSizes' /\ (thread \in Threads)'
    BY OfferSizesNext, PriceSizesNext, NoticeSizesNext, ThreadsNext
  <1>3. PayoutInv /\ StockInv /\ CountInv /\ OfferSizes => F!OffersTypeOK
    <2> SUFFICES ASSUME PayoutInv, StockInv, CountInv, OfferSizes PROVE F!OffersTypeOK
      OBVIOUS
    <2>1. redeemed \in [Users -> 0 .. MaxRedeemed]
      <3>1. redeemed \in [Users -> Nat] /\ \A u \in Users : redeemed[u] <= MaxRedeemed
        BY DEF CountInv, OfferSizes
      <3>2. MaxRedeemed \in Nat
        BY ServicesAssumption DEF F!OffersAssumption
      <3> QED
        BY <3>1, <3>2
    <2>2. station.available \in Nat /\ station.given \in 0 .. MaxStock /\ sold \in Nat
      BY OffersConstants DEF StockInv, StationRecords, OfferSizes
    <2>3. \A t \in Tasks : offerTask[t].u \in Users \cup {None} /\ offerTask[t].todo \subseteq Users
      BY DEF PayoutInv, TaskRecords
    <2>4. /\ promo \in [active : BOOLEAN, limit : Limits, highest : Limits]
          /\ referral \in [Users -> {"NONE", "QUALIFIED", "PAID"}]
      BY DEF CountInv, PromoRecords, PayoutInv, ReferralStatuses
    <2> QED
      BY <2>1, <2>2, <2>3, <2>4 DEF F!OffersTypeOK, OfferSizes
  <1>4. PriceSizes => P!PricingTypeOK
    <2> SUFFICES ASSUME PriceSizes PROVE P!PricingTypeOK
      OBVIOUS
    <2>1. MaxWrites \in Nat /\ writes \in Nat /\ writes <= MaxWrites
      BY ServicesAssumption DEF P!PricingAssumption, PriceSizes
    <2>2. table.tariffs \in [P!Keys -> 0 .. MaxWrites]
      <3>1. table.tariffs \in [P!Keys -> Nat] /\ \A k \in P!Keys : table.tariffs[k] <= writes
        BY DEF PriceSizes, Tables, Within
      <3> QED
        BY <2>1, <3>1
    <2>3. /\ table.rules \in 0 .. MaxWrites /\ table.areas \in 0 .. MaxWrites
          /\ table.config \in 0 .. MaxWrites
      BY <2>1 DEF PriceSizes, Tables, Within
    <2>4. ASSUME NEW x \in P!Tables
          PROVE  entry[x] = P!NoEntry \/ entry[x] = P!Cached(entry[x].value)
      <3>1. entry[x] = P!NoEntry \/ \E v : entry[x] = P!Cached(v)
        BY DEF PriceSizes, EntryOK
      <3>2. \A v : P!Cached(v).value = v
        BY DEF P!Cached
      <3> QED
        BY <3>1, <3>2
    <2> QED
      BY <2>1, <2>2, <2>3, <2>4 DEF P!PricingTypeOK
  <1>5. NoticesInv /\ NoticeSizes => N!NoticesTypeOK
    <2> SUFFICES ASSUME NoticesInv, NoticeSizes PROVE N!NoticesTypeOK
      OBVIOUS
    <2>1. inbox \in [Recipients -> [campaign : 0 .. MaxNotes, other : 0 .. MaxNotes]]
      <3>1. MaxNotes \in Nat /\ inbox \in [Recipients -> Boxes]
        BY ServicesAssumption DEF NoticesInv, N!NoticesAssumption
      <3>2. ASSUME NEW u \in Recipients
            PROVE  inbox[u] \in [campaign : 0 .. MaxNotes, other : 0 .. MaxNotes]
        BY <3>1 DEF Boxes, NoticeSizes
      <3> QED
        BY <3>1, <3>2
    <2>2. /\ users \subseteq Recipients /\ campaign.row \in {"NONE", "CREATED", "SENT"}
          /\ campaign.job \in {"none", "delayed", "waiting", "active", "done", "failed"}
      BY DEF NoticesInv, Campaigns
    <2> QED
      BY <2>1, <2>2 DEF N!NoticesTypeOK, NoticeSizes
  <1>6. TicketInv /\ thread \in Threads => T!TicketsTypeOK
    BY DEF TicketInv, TicketRecords, Threads, T!TicketsTypeOK
  <1>7. /\ PayoutInv /\ StockInv /\ CountInv /\ NoticesInv /\ TicketInv
        /\ OfferSizes /\ PriceSizes /\ NoticeSizes /\ thread \in Threads
        => ServicesTypeOK
    BY <1>3, <1>4, <1>5, <1>6 DEF ServicesTypeOK
  <1>8. Init => StockInv /\ CountInv /\ NoticesInv
    BY LimitsInit, NoticesInit
  <1>9. /\ PayoutInv /\ StockInv /\ CountInv /\ NoticesInv /\ [Next]_vars
        => StockInv' /\ CountInv' /\ NoticesInv'
    BY LimitsNext, NoticesNext
  <1> QED
    BY <1>1, <1>2, <1>7, <1>8, <1>9, PayoutInvAlways, TicketInvAlways, PTL DEF Spec
=============================================================================
