--------------------------- MODULE CreditManager ---------------------------
(***************************************************************************)
(* class CreditManager (src/axi2flit/systemc/include/credit_manager.h): the *)
(* flow-control ledger that FlitPacker and AouTarget each keep per resource *)
(* plane and message kind.  A credit is one granule of the peer's receive  *)
(* buffer.  An instance is a record                                        *)
(*   tx    credits granted by the peer and not yet consumed                *)
(*   cap   this side's receive capacity                                    *)
(*   pend  receive space freed (or never used) and not yet granted         *)
(*   next_header_rp  where the header grant's rotation goes on             *)
(***************************************************************************)
EXTENDS Integers, Sequences, SequencesExt

CONSTANT RpCount        \* enabled resource planes

RPs == 0..(RpCount - 1)
KindSeq == <<"WriteReq", "ReadReq", "WriteData", "ReadData", "WriteResp">>
Kinds == Range(KindSeq)
CreditCounterMax == 4095

Least2(m, n) == IF m <= n THEN m ELSE n

\* The member of a non-empty subset of 0..n-1 that a rotation starting at next meets first.
FirstFrom(S, next, n) == CHOOSE i \in S : \A j \in S : (i - next) % n <= (j - next) % n

\* decode_credit_encoding of 0..max_encoding; WriteResp has a two-bit field.
Encodable(kind) == IF kind = "WriteResp" THEN {0, 1, 4, 8} ELSE {0, 1, 4, 8, 16, 32, 64, 128}

\* encode_credit_amount: the largest amount a field can carry that is not more than pending.
EncodeCreditAmount(pending, kind) ==
    CHOOSE v \in Encodable(kind) :
        v <= pending /\ \A w \in Encodable(kind) : w <= pending => w <= v

\* A CreditMatrix.
NoGrants == [rp \in RPs |-> [k \in Kinds |-> 0]]

NewCredits(capacity) ==
    [tx |-> NoGrants, cap |-> capacity, pend |-> capacity, next_header_rp |-> 0]

CanConsume(c, rp, kind, n) == c.tx[rp][kind] >= n
Consume(c, rp, kind, n) == [c EXCEPT !.tx[rp][kind] = @ - n]

\* Granules that a sequence of CreditUpdates names for one plane and kind.
AmountIn(updates, rp, kind) ==
    FoldLeft(LAMBDA n, u : IF u.rp = rp /\ u.kind = kind THEN n + u.n ELSE n, 0, updates)

\* Fault: an add_tx_credit that replaces what is left.
SetTxCredit(c, updates) ==
    [c EXCEPT !.tx = [rp \in RPs |-> [k \in Kinds |->
        IF AmountIn(updates, rp, k) = 0 THEN c.tx[rp][k] ELSE AmountIn(updates, rp, k)]]]

\* add_tx_credit for every update of a sequence.
AddTxCredit(c, updates) ==
    [c EXCEPT !.tx = [rp \in RPs |-> [k \in Kinds |->
        Least2(CreditCounterMax, c.tx[rp][k] + AmountIn(updates, rp, k))]]]

\* return_rx_credit for every return of a sequence.
ReturnRxCredit(c, returns) ==
    [c EXCEPT !.pend = [rp \in RPs |-> [k \in Kinds |->
        Least2(c.cap[rp][k], c.pend[rp][k] + AmountIn(returns, rp, k))]]]

PlanesPending(c) == {rp \in RPs : \E k \in Kinds : c.pend[rp][k] # 0}
HasPendingReturns(c) == PlanesPending(c) # {}

\* What take_encoded grants on the planes of a set.
GrantsFor(c, planes) ==
    [rp \in RPs |-> [k \in Kinds |->
        IF rp \in planes THEN EncodeCreditAmount(c.pend[rp][k], k) ELSE 0]]

\* Fault: a grant that is not taken off pending.
GrantedAgain(c, grants) == c

Granted(c, grants) ==
    [c EXCEPT !.pend = [rp \in RPs |-> [k \in Kinds |-> c.pend[rp][k] - grants[rp][k]]]]

HeaderPlanes(c) ==
    IF HasPendingReturns(c) THEN {FirstFrom(PlanesPending(c), c.next_header_rp, RpCount)} ELSE {}

\* take_header_grant: one plane, in rotation.
HeaderGrant(c) == GrantsFor(c, HeaderPlanes(c))
AfterHeaderGrant(c) ==
    [Granted(c, HeaderGrant(c)) EXCEPT !.next_header_rp =
        IF HasPendingReturns(c) THEN (FirstFrom(PlanesPending(c), @, RpCount) + 1) % RpCount ELSE @]

\* take_misc_grants: every plane at once.
MiscGrants(c) == GrantsFor(c, RPs)
AfterMiscGrants(c) == Granted(c, MiscGrants(c))

\* decode_header_credits and the decoding of a CrdtGrant: the non-zero fields, plane by plane.
CreditUpdates(grants) ==
    LET cells == [i \in 1..(RpCount * Len(KindSeq)) |->
                     LET rp == (i - 1) \div Len(KindSeq)
                         kind == KindSeq[((i - 1) % Len(KindSeq)) + 1]
                     IN  [rp |-> rp, kind |-> kind, n |-> grants[rp][kind]]]
    IN  SelectSeq(cells, LAMBDA u : u.n # 0)
============================================================================
