------------------------- MODULE MaintenanceProofs -------------------------
(***************************************************************************)
(* What the maintenance of the DRAM keeps: refresh and RFM.                  *)
(*                                                                         *)
(* The refresh manager's debt and what it means for a bank, for any           *)
(* organisation, interval, limits and time the manager is not asked: AgeInv    *)
(* ties the three together, for the deadlines a bank has waited for are its     *)
(* rank's debt and the batches of other banks since its own turn.  It needs no  *)
(* bound on the debt.  OwesInv bounds the debt of a rank that shares the       *)
(* manager with no other: postponements explain all of it but what passed     *)
(* while the manager was not asked.                                          *)
(*                                                                         *)
(* The activation counters, for any banks, ranks, threshold, decrement and    *)
(* queue: FlagsExact needs to know that the policy decides which of the two    *)
(* commands is ever queued (OneKind); the bound on activations needs all the   *)
(* others.                                                                 *)
(***************************************************************************)
EXTENDS RfmCounters, RefreshDebt, WellFoundedInduction, TLAPS

-----------------------------------------------------------------------------
(* Refresh                                                                   *)

\* What is assumed of the configuration, which never changes.
Parameters == RefreshAssumption /\ cfg \in Configs

RankState ==
    [wait: 1 .. Interval, credit: Int, postpone_count: 0 .. cfg.postpone_limit, pullin_count: 0 .. cfg.pullin_limit,
     flat: 0 .. (PositionsPerSid - 1), sid: 0 .. (cfg.sid_count - 1)]
TypeInv ==
    /\ Parameters /\ rank_cursor \in RankIds
    /\ rank_states \in [RankIds -> RankState] /\ age \in [RankIds -> [BankIds -> Nat]]
    /\ \A r \in RankIds : rank_states[r].credit >= -1

\* Where in its SID's round a bank has its turn.
Groups == IF cfg.dual_bank THEN cfg.bank_groups \div 2 ELSE cfg.bank_groups
Group(b) == IF cfg.dual_bank THEN b[2] \div 2 ELSE b[2]
Position(b) == Group(b) * cfg.banks_per_group + b[3]
TurnIsOver(s, b) == b[1] < s.sid \/ (b[1] = s.sid /\ Position(b) < s.flat)
\* The batches since the turn of a bank.
BatchesSince(s, b) ==
    IF cfg.all_bank THEN 0
    ELSE (s.sid - b[1] + (IF TurnIsOver(s, b) THEN 0 ELSE cfg.sid_count)) * PositionsPerSid + s.flat - Position(b) - 1
AgeInv == \A r \in RankIds, b \in BankIds : age[r][b] <= rank_states[r].credit + 1 + BatchesSince(rank_states[r], b)

\* What is owed was postponed, but for what passed while the manager was not asked.
Owes(s) ==
    /\ s.credit <= s.postpone_count + MissedAtOnce - 1
    /\ cfg.credit_limit # 0 => s.credit <= cfg.credit_limit \/ s.credit <= MissedAtOnce - 1
OwesInv == RankCount = 1 => Owes(rank_states[0])

DebtInv == TypeInv /\ AgeInv /\ OwesInv

-----------------------------------------------------------------------------
(* Numbers                                                                   *)

LEMMA LeastOf ==
    ASSUME NEW T \in SUBSET Nat, T # {}
    PROVE  Min(T) \in T
<1>1. PICK x \in T : \A y \in T : <<y, x>> \notin OpToRel(<, Nat)
  BY NatLessThanWellFounded, WFMin
<1>2. \A y \in T : x <= y
  <2> TAKE y \in T
  <2>1. x \in Nat /\ y \in Nat
    OBVIOUS
  <2>2. y < x => <<y, x>> \in OpToRel(<, Nat)
    BY <2>1 DEF OpToRel
  <2>3. ~(y < x)
    BY <1>1, <2>2
  <2>4. QED
    BY <2>1, <2>3
<1>3. QED
  BY <1>2 DEF Min

LEMMA MaxOfTwo ==
    ASSUME NEW a \in Int, NEW b \in Int
    PROVE  Max({a, b}) \in Int /\ Max({a, b}) >= a /\ Max({a, b}) >= b /\ Max({a, b}) \in {a, b}
  BY DEF Max
LEMMA MinOfTwo ==
    ASSUME NEW a \in Int, NEW b \in Int
    PROVE  Min({a, b}) \in Int /\ Min({a, b}) <= a /\ Min({a, b}) <= b /\ Min({a, b}) \in {a, b}
  BY DEF Min

LEMMA Division ==
    ASSUME NEW a \in Nat, NEW d \in Nat \ {0}
    PROVE  a \div d \in Nat /\ a % d \in 0 .. (d - 1) /\ a = (a \div d) * d + (a % d)
  OBVIOUS

LEMMA Scaled ==
    ASSUME NEW a \in Int, NEW b \in Int, NEW d \in Nat, a <= b
    PROVE  a * d \in Int /\ b * d \in Int /\ a * d <= b * d
  OBVIOUS

LEMMA Spread ==
    ASSUME NEW a \in Int, NEW b \in Int, NEW d \in Int
    PROVE  (a + b) * d = a * d + b * d /\ a * d \in Int /\ b * d \in Int
  OBVIOUS

\* Two positions q * d + r are the same only if q and r are.
LEMMA Digits ==
    ASSUME NEW d \in Nat \ {0}, NEW q \in Nat, NEW r \in 0 .. (d - 1), NEW p \in Nat, NEW t \in 0 .. (d - 1)
    PROVE  /\ q < p => q * d + r < p * d + t
           /\ q * d + r = p * d + t => q = p /\ r = t
<1>1. q < p => q * d + d <= p * d
  <2> HAVE q < p
  <2>1. (q + 1) * d <= p * d /\ (q + 1) * d = q * d + 1 * d
    BY Scaled, Spread
  <2>2. QED
    BY <2>1
<1>2. p < q => p * d + d <= q * d
  <2> HAVE p < q
  <2>1. (p + 1) * d <= q * d /\ (p + 1) * d = p * d + 1 * d
    BY Scaled, Spread
  <2>2. QED
    BY <2>1
<1>3. q * d \in Int /\ p * d \in Int
  BY Scaled
<1>4. QED
  <2> DEFINE x == q * d
             y == p * d
  <2>1. x \in Int /\ y \in Int /\ (q < p => x + d <= y) /\ (p < q => y + d <= x) /\ (p = q => x = y)
    BY <1>1, <1>2, <1>3
  <2> HIDE DEF x, y
  <2>2. (q < p => x + r < y + t) /\ (x + r = y + t => q = p /\ r = t)
    BY <2>1
  <2>3. QED
    BY <2>2 DEF x, y

-----------------------------------------------------------------------------
(* The rotation                                                              *)

LEMMA ConfigFacts ==
    ASSUME Parameters
    PROVE  /\ cfg.rank_count \in Nat \ {0} /\ cfg.sid_count \in Nat \ {0} /\ cfg.bank_groups \in Nat \ {0}
           /\ cfg.banks_per_group \in Nat \ {0} /\ cfg.interval \in Nat \ {0} /\ cfg.max_skip \in Nat \ {0}
           /\ cfg.postpone_limit \in Nat /\ cfg.pullin_limit \in Nat /\ cfg.credit_limit \in Nat
           /\ cfg.all_bank \in BOOLEAN /\ cfg.dual_bank \in BOOLEAN
           /\ Groups \in Nat \ {0} /\ (cfg.dual_bank => cfg.bank_groups = 2 * Groups)
           /\ PositionsPerSid = Groups * cfg.banks_per_group /\ PositionsPerSid \in Nat \ {0}
<1>1. /\ cfg.rank_count \in Nat \ {0} /\ cfg.sid_count \in Nat \ {0} /\ cfg.bank_groups \in Nat \ {0}
      /\ cfg.banks_per_group \in Nat \ {0} /\ cfg.interval \in Nat \ {0} /\ cfg.max_skip \in Nat \ {0}
      /\ cfg.postpone_limit \in Nat /\ cfg.pullin_limit \in Nat /\ cfg.credit_limit \in Nat
      /\ cfg.all_bank \in BOOLEAN /\ cfg.dual_bank \in BOOLEAN
      /\ cfg.dual_bank => cfg.bank_groups % 2 = 0
  BY DEF Parameters, RefreshAssumption
<1>2. Groups \in Nat \ {0} /\ (cfg.dual_bank => cfg.bank_groups = 2 * Groups)
  BY <1>1 DEF Groups
<1>3. cfg.dual_bank => Max({1, cfg.bank_groups \div 2}) = Groups
  <2>1. Max({1, Groups}) = Groups
    BY <1>2, MaxOfTwo
  <2>2. QED
    BY <2>1 DEF Groups
<1>4. PositionsPerSid = Groups * cfg.banks_per_group
  BY <1>3 DEF PositionsPerSid, Groups
<1>5. 1 * cfg.banks_per_group <= Groups * cfg.banks_per_group /\ Groups * cfg.banks_per_group \in Int
  BY <1>1, <1>2, Scaled
<1>6. PositionsPerSid \in Nat \ {0}
  BY <1>1, <1>4, <1>5
<1>7. QED
  BY <1>1, <1>2, <1>4, <1>6

LEMMA SomeBank ==
    ASSUME Parameters
    PROVE  BankIds # {}
<1>1. 0 \in 0 .. (cfg.sid_count - 1) /\ 0 \in 0 .. (cfg.bank_groups - 1) /\ 0 \in 0 .. (cfg.banks_per_group - 1)
  BY ConfigFacts
<1>2. <<0, 0, 0>> \in BankIds
  BY <1>1 DEF BankIds
<1>3. QED
  BY <1>2

LEMMA PositionFacts ==
    ASSUME Parameters, NEW b \in BankIds
    PROVE  /\ b[1] \in 0 .. (cfg.sid_count - 1) /\ Position(b) \in 0 .. (PositionsPerSid - 1)
           /\ Group(b) \in 0 .. (Groups - 1) /\ b[2] \in 0 .. (cfg.bank_groups - 1)
           /\ b[3] \in 0 .. (cfg.banks_per_group - 1) /\ b = <<b[1], b[2], b[3]>>
<1>1. /\ b[1] \in 0 .. (cfg.sid_count - 1) /\ b[2] \in 0 .. (cfg.bank_groups - 1)
      /\ b[3] \in 0 .. (cfg.banks_per_group - 1) /\ b = <<b[1], b[2], b[3]>>
  BY DEF BankIds
<1>2. Group(b) \in 0 .. (Groups - 1)
  BY <1>1, ConfigFacts DEF Group, Groups
<1> DEFINE d == cfg.banks_per_group
           g == Group(b)
           t == b[3]
<1>3. d \in Nat \ {0} /\ g \in 0 .. (Groups - 1) /\ Groups \in Nat /\ t \in 0 .. (d - 1)
  BY <1>1, <1>2, ConfigFacts
<1>4. PositionsPerSid = Groups * d /\ Position(b) = g * d + t
  BY ConfigFacts DEF Position
<1> HIDE DEF d, g, t
<1>5. (g + 1) * d <= Groups * d /\ (g + 1) * d = g * d + 1 * d /\ g * d \in Int /\ Groups * d \in Int /\ 0 * d <= g * d
  BY <1>3, Scaled, Spread
<1>6. Position(b) \in 0 .. (PositionsPerSid - 1)
  BY <1>3, <1>4, <1>5
<1>7. QED
  BY <1>1, <1>2, <1>6

\* A batch refreshes the banks whose turn it is.
LEMMA TargetsAre ==
    ASSUME Parameters, ~cfg.all_bank, NEW s \in RankState, NEW b \in BankIds
    PROVE  b \in Targets(s) <=> b[1] = s.sid /\ Position(b) = s.flat
<1> DEFINE d == cfg.banks_per_group
           q == s.flat \div d
           r == s.flat % d
<1>1. d \in Nat \ {0} /\ s.flat \in Nat /\ s.sid \in Nat
  BY ConfigFacts DEF RankState
<1>2. q \in Nat /\ r \in 0 .. (d - 1) /\ s.flat = q * d + r
  BY <1>1, Division
<1>3. b[2] \in Nat /\ b[3] \in 0 .. (d - 1) /\ Group(b) \in Nat /\ b = <<b[1], b[2], b[3]>>
  BY <1>1, PositionFacts, ConfigFacts
<1>4. Position(b) = Group(b) * d + b[3]
  BY DEF Position
<1>5. Position(b) = s.flat <=> Group(b) = q /\ b[3] = r
  <2> HIDE DEF q, r, d
  <2>1. Group(b) * d + b[3] = q * d + r => Group(b) = q /\ b[3] = r
    BY <1>1, <1>2, <1>3, Digits
  <2>2. QED
    BY <1>2, <1>4, <2>1
<1>6. CASE cfg.dual_bank
  <2>1. cfg.bank_groups >= 2
    BY <1>6, ConfigFacts
  <2>2. Targets(s) = {<<s.sid, q * 2, r>>, Partner(<<s.sid, q * 2, r>>)}
    BY <1>6 DEF Targets
  <2> HIDE DEF q, r, d
  <2>3. Partner(<<s.sid, q * 2, r>>) = <<s.sid, q * 2 + 1, r>>
    <3>1. (q * 2) % 2 = 0
      BY <1>2
    <3>2. QED
      BY <2>1, <3>1, ConfigFacts DEF Partner
  <2>4. b \in Targets(s) <=> b[1] = s.sid /\ (b[2] = q * 2 \/ b[2] = q * 2 + 1) /\ b[3] = r
    BY <1>3, <2>2, <2>3
  <2>5. Group(b) = q <=> b[2] = q * 2 \/ b[2] = q * 2 + 1
    BY <1>2, <1>3, <1>6 DEF Group
  <2>6. QED
    BY <1>5, <2>4, <2>5
<1>7. CASE ~cfg.dual_bank
  <2>1. Targets(s) = {<<s.sid, q, r>>} /\ Group(b) = b[2]
    BY <1>7 DEF Targets, Group
  <2> HIDE DEF q, r, d
  <2>2. QED
    BY <1>3, <1>5, <2>1
<1>8. QED
  BY <1>6, <1>7

LEMMA SinceInRound ==
    ASSUME Parameters, NEW s \in RankState, NEW b \in BankIds
    PROVE  BatchesSince(s, b) \in 0 .. (Rotation - 1)
<1>1. CASE cfg.all_bank
  BY <1>1 DEF BatchesSince, Rotation
<1>2. CASE ~cfg.all_bank
  <2> DEFINE P == PositionsPerSid
             S == cfg.sid_count
             k == s.sid - b[1] + (IF TurnIsOver(s, b) THEN 0 ELSE S)
             x == s.flat
             y == Position(b)
  <2>1. /\ P \in Nat \ {0} /\ S \in Nat \ {0} /\ s.sid \in 0 .. (S - 1) /\ b[1] \in 0 .. (S - 1)
        /\ x \in 0 .. (P - 1) /\ y \in 0 .. (P - 1)
    BY ConfigFacts, PositionFacts DEF RankState
  <2>2. BatchesSince(s, b) = k * P + x - y - 1 /\ Rotation = S * P
    BY <1>2 DEF BatchesSince, Rotation
  <2>3. /\ k \in 0 .. S /\ (k = 0 => y < x) /\ (k = S => x <= y)
    BY <2>1 DEF TurnIsOver
  <2> HIDE DEF P, S, k, x, y
  <2>4. k * P \in Int /\ S * P \in Int
    BY <2>1, <2>3, Scaled
  <2>5. k = 0 => k * P = 0
    BY <2>1
  <2>6. k >= 1 => k * P >= P
    <3>1. k >= 1 => 1 * P <= k * P
      BY <2>1, <2>3, Scaled
    <3>2. QED
      BY <2>1, <2>4, <3>1
  <2>7. k <= S - 1 => k * P <= S * P - P
    <3>1. k <= S - 1 => (k + 1) * P <= S * P
      BY <2>1, <2>3, Scaled
    <3>2. (k + 1) * P = k * P + 1 * P
      BY <2>1, <2>3, Spread
    <3>3. QED
      BY <2>1, <2>4, <3>1, <3>2
  <2>8. k = S => k * P = S * P
    OBVIOUS
  <2>9. QED
    <3> DEFINE m == k * P
               n == S * P
    <3>1. /\ m \in Int /\ n \in Int /\ (k = 0 => m = 0) /\ (k >= 1 => m >= P)
          /\ (k <= S - 1 => m <= n - P) /\ (k = S => m = n) /\ BatchesSince(s, b) = m + x - y - 1 /\ Rotation = n
      BY <2>2, <2>4, <2>5, <2>6, <2>7, <2>8
    <3> HIDE DEF m, n
    <3>2. QED
      BY <2>1, <2>3, <3>1
<1>3. QED
  BY <1>1, <1>2

LEMMA RotationFacts ==
    ASSUME Parameters
    PROVE  Rotation \in Nat \ {0}
<1> DEFINE P == PositionsPerSid
           S == cfg.sid_count
<1>1. P \in Nat \ {0} /\ S \in Nat \ {0} /\ cfg.all_bank \in BOOLEAN
  BY ConfigFacts
<1>2. 1 * P <= S * P /\ S * P \in Int
  BY <1>1, Scaled
<1>3. QED
  BY <1>1, <1>2 DEF Rotation

LEMMA RotatedTyped ==
    ASSUME Parameters, NEW s \in RankState
    PROVE  /\ Rotated(s) \in RankState
           /\ Rotated(s).wait = s.wait /\ Rotated(s).credit = s.credit
           /\ Rotated(s).postpone_count = s.postpone_count /\ Rotated(s).pullin_count = s.pullin_count
<1> DEFINE P == PositionsPerSid
           S == cfg.sid_count
<1>1. P \in Nat \ {0} /\ S \in Nat \ {0}
  BY ConfigFacts
<1>2. s.sid \in 0 .. (S - 1) /\ s.flat \in 0 .. (P - 1)
  BY DEF RankState
<1>3. (s.sid + 1) % S \in 0 .. (S - 1)
  BY <1>1, <1>2
<1>4. CASE cfg.all_bank
  BY <1>4 DEF Rotated
<1>5. CASE ~cfg.all_bank /\ s.flat + 1 >= P
  <2>1. Rotated(s) = [s EXCEPT !.flat = 0, !.sid = (s.sid + 1) % S]
    BY <1>5 DEF Rotated, RankState
  <2>2. 0 \in 0 .. (P - 1)
    BY <1>1
  <2> HIDE DEF P, S
  <2>3. QED
    BY <1>3, <2>1, <2>2 DEF RankState, P, S
<1>6. CASE ~cfg.all_bank /\ s.flat + 1 < P
  <2>1. Rotated(s) = [s EXCEPT !.flat = s.flat + 1]
    BY <1>1, <1>2, <1>6 DEF Rotated, RankState
  <2>2. s.flat + 1 \in 0 .. (P - 1)
    BY <1>1, <1>2, <1>6
  <2> HIDE DEF P, S
  <2>3. QED
    BY <2>1, <2>2 DEF RankState, P
<1>7. QED
  BY <1>1, <1>2, <1>4, <1>5, <1>6

\* A batch brings every bank but its own one batch further from its turn.
LEMMA RotatedSince ==
    ASSUME Parameters, NEW s \in RankState, NEW b \in BankIds, b \notin Targets(s)
    PROVE  BatchesSince(Rotated(s), b) = BatchesSince(s, b) + 1
<1>0. ~cfg.all_bank
  BY DEF Targets
<1> DEFINE P == PositionsPerSid
           S == cfg.sid_count
           u == Rotated(s)
           y == Position(b)
<1>1. /\ P \in Nat \ {0} /\ S \in Nat \ {0} /\ s.sid \in 0 .. (S - 1) /\ b[1] \in 0 .. (S - 1)
      /\ s.flat \in 0 .. (P - 1) /\ y \in 0 .. (P - 1)
  BY ConfigFacts, PositionFacts DEF RankState
<1>2. ~(b[1] = s.sid /\ y = s.flat)
  BY <1>0, TargetsAre
<1>3. BatchesSince(s, b) = (s.sid - b[1] + (IF TurnIsOver(s, b) THEN 0 ELSE S)) * P + s.flat - y - 1
  BY <1>0 DEF BatchesSince
<1>4. BatchesSince(u, b) = (u.sid - b[1] + (IF TurnIsOver(u, b) THEN 0 ELSE S)) * P + u.flat - y - 1
  BY <1>0 DEF BatchesSince
<1>5. CASE s.flat + 1 < P
  <2>1. u.flat = s.flat + 1 /\ u.sid = s.sid
    BY <1>0, <1>1, <1>5 DEF Rotated, RankState
  <2>2. TurnIsOver(u, b) <=> TurnIsOver(s, b)
    BY <1>1, <1>2, <2>1 DEF TurnIsOver
  <2> DEFINE k == s.sid - b[1] + (IF TurnIsOver(s, b) THEN 0 ELSE S)
  <2>3. k \in Int /\ k * P \in Int
    BY <1>1, Spread
  <2>4. BatchesSince(s, b) = k * P + s.flat - y - 1 /\ BatchesSince(u, b) = k * P + (s.flat + 1) - y - 1
    BY <1>3, <1>4, <2>1, <2>2
  <2> HIDE DEF k, u
  <2>5. QED
    BY <1>1, <2>3, <2>4 DEF u
<1>6. CASE s.flat + 1 >= P
  <2>1. u.flat = 0 /\ u.sid = (s.sid + 1) % S /\ s.flat = P - 1
    BY <1>0, <1>1, <1>6 DEF Rotated, RankState
  <2>2. u.sid = IF s.sid + 1 = S THEN 0 ELSE s.sid + 1
    <3>1. s.sid + 1 < S => (s.sid + 1) % S = s.sid + 1
      BY <1>1
    <3>2. s.sid + 1 = S => (s.sid + 1) % S = 0
      BY <1>1
    <3>3. QED
      BY <1>1, <2>1, <3>1, <3>2
  <2> DEFINE k == s.sid - b[1] + (IF TurnIsOver(s, b) THEN 0 ELSE S)
             j == u.sid - b[1] + (IF TurnIsOver(u, b) THEN 0 ELSE S)
  <2>3. k \in Int /\ j = k + 1
    <3> HIDE DEF P, S, u, y
    <3>1. TurnIsOver(u, b) <=> b[1] < u.sid
      BY <1>1, <2>1 DEF TurnIsOver, y
    <3>2. TurnIsOver(s, b) <=> b[1] <= s.sid
      BY <1>1, <1>2, <2>1 DEF TurnIsOver, y
    <3>3. QED
      BY <1>1, <2>2, <3>1, <3>2
  <2> HIDE DEF k, j
  <2>4. (k + 1) * P = k * P + 1 * P /\ k * P \in Int
    BY <1>1, <2>3, Spread
  <2>5. BatchesSince(s, b) = k * P + s.flat - y - 1 /\ BatchesSince(u, b) = (k + 1) * P + u.flat - y - 1
    BY <1>3, <1>4, <2>3 DEF k, j
  <2> HIDE DEF u
  <2>6. BatchesSince(u, b) = BatchesSince(s, b) + 1
    BY <1>1, <2>1, <2>4, <2>5
  <2>7. QED
    BY <2>6 DEF u
<1>7. QED
  BY <1>1, <1>5, <1>6

-----------------------------------------------------------------------------
(* Deadlines                                                                 *)

LEMMA MissedFacts ==
    ASSUME Parameters
    PROVE  MissedAtOnce \in Nat \ {0}
<1>1. cfg.max_skip - 1 \in Nat /\ cfg.interval \in Nat \ {0}
  BY ConfigFacts
<1>2. (cfg.max_skip - 1) \div cfg.interval \in Nat
  BY <1>1, Division
<1>3. QED
  BY <1>2 DEF MissedAtOnce, Interval

\* A debt the limits allow.
LEMMA LimitFacts ==
    ASSUME Parameters
    PROVE  /\ DebtLimit \in Int /\ DebtLimit >= MissedAtOnce
           /\ cfg.credit_limit = 0 => DebtLimit >= cfg.postpone_limit + MissedAtOnce - 1
           /\ cfg.credit_limit # 0 => \/ DebtLimit >= cfg.postpone_limit + MissedAtOnce - 1
                                      \/ DebtLimit >= cfg.credit_limit + MissedAtOnce - 1
<1>1. cfg.postpone_limit \in Nat /\ cfg.credit_limit \in Nat /\ MissedAtOnce \in Nat \ {0}
  BY ConfigFacts, MissedFacts
<1> DEFINE least == Min({cfg.postpone_limit, cfg.credit_limit})
           most == Max({1, Postponable})
<1>2. /\ Postponable \in Int
      /\ cfg.credit_limit = 0 => Postponable = cfg.postpone_limit
      /\ Postponable = cfg.postpone_limit \/ Postponable = cfg.credit_limit
  <2>1. cfg.postpone_limit \in Int /\ cfg.credit_limit \in Int
    BY <1>1
  <2>2. least \in Int /\ least \in {cfg.postpone_limit, cfg.credit_limit}
    BY <2>1, MinOfTwo
  <2>3. Postponable = IF cfg.credit_limit = 0 THEN cfg.postpone_limit ELSE least
    BY DEF Postponable
  <2> HIDE DEF least
  <2>4. QED
    BY <2>1, <2>2, <2>3
<1>3. most \in Int /\ most >= 1 /\ most >= Postponable
  <2>1. 1 \in Int /\ Postponable \in Int
    BY <1>2
  <2>2. QED
    BY <2>1, MaxOfTwo
<1>4. DebtLimit = most + MissedAtOnce - 1
  BY DEF DebtLimit
<1> HIDE DEF most
<1>5. QED
  BY <1>1, <1>2, <1>3, <1>4

LEMMA Quotients ==
    ASSUME NEW d \in Nat \ {0}, NEW a \in Nat, NEW b \in Nat, a <= b
    PROVE  a \div d <= b \div d
<1> DEFINE q == a \div d
           r == a % d
           p == b \div d
           t == b % d
<1>1. q \in Nat /\ r \in 0 .. (d - 1) /\ a = q * d + r /\ p \in Nat /\ t \in 0 .. (d - 1) /\ b = p * d + t
  BY Division
<1> HIDE DEF q, r, p, t
<1>2. p < q => p * d + t < q * d + r
  BY <1>1, Digits
<1>3. ~(p < q)
  BY <1>1, <1>2
<1>4. q <= p
  BY <1>1, <1>3
<1>5. QED
  BY <1>4 DEF q, p

\* The clock wraps, and as many deadlines pass as the manager can miss at once; in one tick, one.
LEMMA OverdueFacts ==
    ASSUME Parameters, NEW s \in RankState, NEW dt \in 1 .. cfg.max_skip
    PROVE  /\ Passed(s, dt) \in 0 .. MissedAtOnce /\ (dt = 1 => Passed(s, dt) <= 1)
           /\ Overdue(s, dt) \in RankState /\ Overdue(s, dt).credit = s.credit + Passed(s, dt)
           /\ Overdue(s, dt).postpone_count = s.postpone_count
           /\ Overdue(s, dt).flat = s.flat /\ Overdue(s, dt).sid = s.sid
<1> DEFINE I == Interval
           q == (dt - s.wait) \div I
           r == (dt - s.wait) % I
           n == Passed(s, dt)
<1>1. I \in Nat \ {0} /\ cfg.max_skip \in Nat \ {0} /\ dt \in Nat /\ dt >= 1 /\ dt <= cfg.max_skip
  BY ConfigFacts DEF Interval
<1>2. s.wait \in 1 .. I /\ s.credit \in Int
  BY DEF RankState
<1>3. ASSUME dt < s.wait
      PROVE  n \in 0 .. MissedAtOnce /\ (dt = 1 => n <= 1) /\ s.wait - dt + n * I \in 1 .. I
  <2>1. n = 0
    BY <1>3 DEF Passed
  <2>2. s.wait - dt + n * I \in 1 .. I
    BY <1>1, <1>2, <1>3, <2>1
  <2> HIDE DEF I, n
  <2>3. QED
    BY <2>1, <2>2, MissedFacts
<1>4. ASSUME ~(dt < s.wait)
      PROVE  n \in 0 .. MissedAtOnce /\ (dt = 1 => n <= 1) /\ s.wait - dt + n * I \in 1 .. I
  <2>1. dt - s.wait \in Nat /\ dt - s.wait <= cfg.max_skip - 1 /\ cfg.max_skip - 1 \in Nat /\ n = 1 + q
    BY <1>1, <1>2, <1>4 DEF Passed
  <2>2. q \in Nat /\ r \in 0 .. (I - 1) /\ dt - s.wait = q * I + r
    BY <1>1, <2>1, Division
  <2>3. q <= (cfg.max_skip - 1) \div I
    BY <1>1, <2>1, Quotients
  <2>4. n \in 0 .. MissedAtOnce
    <3>1. MissedAtOnce = 1 + (cfg.max_skip - 1) \div I /\ (cfg.max_skip - 1) \div I \in Nat
      BY <1>1, <2>1, Division DEF MissedAtOnce
    <3> HIDE DEF I, q, n
    <3>2. QED
      BY <2>1, <2>2, <2>3, <3>1
  <2>5. dt = 1 => n <= 1
    <3> HAVE dt = 1
    <3>1. dt - s.wait = 0
      BY <1>1, <1>2, <1>4
    <3>2. 0 \div I = 0
      BY <1>1
    <3>3. QED
      BY <2>1, <3>1, <3>2
  <2>6. s.wait - dt + n * I \in 1 .. I
    <3> HIDE DEF I, q, r, n
    <3>1. n * I = 1 * I + q * I /\ q * I \in Int
      BY <1>1, <2>1, <2>2, Spread
    <3>2. QED
      BY <1>1, <1>2, <2>2, <3>1
  <2>7. QED
    BY <2>4, <2>5, <2>6
<1>5. n \in 0 .. MissedAtOnce /\ (dt = 1 => n <= 1) /\ s.wait - dt + n * I \in 1 .. I
  BY <1>3, <1>4
<1>6. Overdue(s, dt) = [s EXCEPT !.wait = s.wait - dt + n * I, !.credit = s.credit + n,
                                 !.pullin_count = IF s.credit + n >= 0 THEN 0 ELSE s.pullin_count]
  BY DEF Overdue, RankState
<1>7. cfg.pullin_limit \in Nat /\ s.pullin_count \in 0 .. cfg.pullin_limit /\ n \in Int
  BY <1>5, ConfigFacts, MissedFacts DEF RankState
<1>8. s.credit + n \in Int /\ 0 \in 0 .. cfg.pullin_limit
  BY <1>2, <1>7
<1> DEFINE w == s.wait - dt + n * I
           c == s.credit + n
           p == IF c >= 0 THEN 0 ELSE s.pullin_count
<1>9. w \in 1 .. I /\ c \in Int /\ p \in 0 .. cfg.pullin_limit
  BY <1>5, <1>7, <1>8
<1>10. Overdue(s, dt) = [s EXCEPT !.wait = w, !.credit = c, !.pullin_count = p]
  BY <1>6
<1> HIDE DEF w, c, p, n, I
<1>11. /\ Overdue(s, dt) \in RankState /\ Overdue(s, dt).credit = c
       /\ Overdue(s, dt).postpone_count = s.postpone_count
       /\ Overdue(s, dt).flat = s.flat /\ Overdue(s, dt).sid = s.sid
  BY <1>9, <1>10 DEF RankState, I
<1>12. QED
  BY <1>5, <1>11 DEF c, n

-----------------------------------------------------------------------------
(* One tick                                                                  *)

Due(dt) == [r \in RankIds |-> Overdue(rank_states[r], dt)]
Newly(r, dt) == Passed(rank_states[r], dt) > 0

\* What a tick may do, to the rank whose turn it is.
PostponeStep(r, dt, busy) ==
    /\ Due(dt)[r].credit > 0 /\ CanPostpone(Due(dt)[r], Newly(r, dt), busy)
    /\ rank_states' = [Due(dt) EXCEPT ![r] = Postponed(Due(dt)[r])] /\ age' = Aged(dt)
BatchStep(r, dt) ==
    /\ Due(dt)[r].credit > 0
    /\ rank_states' = [Due(dt) EXCEPT ![r] = Batch(Due(dt)[r])] /\ age' = Refreshed(Aged(dt), r, Due(dt)[r])
PullInStep(r, dt) ==
    /\ CanPullIn(Due(dt)[r])
    /\ rank_states' = [Due(dt) EXCEPT ![r] = PulledIn(Due(dt)[r])] /\ age' = Refreshed(Aged(dt), r, Due(dt)[r])
QuietStep(dt, busy) ==
    /\ \A r \in RankIds : RankCount = 1 => ~(Due(dt)[r].credit > 0) \/ Waits(Due(dt)[r], Newly(r, dt), busy)
    /\ rank_states' = Due(dt) /\ age' = Aged(dt)

LEMMA CursorFacts ==
    ASSUME Parameters, rank_cursor \in RankIds
    PROVE  /\ \A o \in 0 .. (RankCount - 1) : At(o) \in RankIds
           /\ \A r \in RankIds : (r + 1) % RankCount \in RankIds
           /\ RankCount = 1 => RankIds = {0} /\ At(0) = 0
<1>1. RankCount \in Nat \ {0} /\ rank_cursor \in 0 .. (RankCount - 1)
  BY ConfigFacts DEF RankCount, RankIds
<1>2. \A x \in Nat : x % RankCount \in 0 .. (RankCount - 1)
  BY <1>1
<1>3. ASSUME RankCount = 1
      PROVE  RankIds = {0} /\ At(0) = 0
  <2>1. 0 \in 0 .. (RankCount - 1) /\ At(0) \in 0 .. (RankCount - 1)
    BY <1>1, <1>2 DEF At
  <2>2. QED
    BY <1>3, <2>1 DEF RankIds
<1>4. QED
  BY <1>1, <1>2, <1>3 DEF At, RankIds

LEMMA TickCases ==
    ASSUME Parameters, rank_cursor \in RankIds, NEW dt \in 1 .. cfg.max_skip, NEW busy \in BOOLEAN, NEW idle \in BOOLEAN,
           Tick(dt, busy, idle)
    PROVE  /\ MaySkip(dt) /\ cfg' = cfg /\ rank_cursor' \in RankIds
           /\ \/ \E r \in RankIds : PostponeStep(r, dt, busy) \/ BatchStep(r, dt) \/ PullInStep(r, dt)
              \/ QuietStep(dt, busy)
<1> DEFINE owing == {o \in 0 .. (RankCount - 1) :
                        Due(dt)[At(o)].credit > 0 /\ ~Waits(Due(dt)[At(o)], Newly(At(o), dt), busy)}
           early == {o \in 0 .. (RankCount - 1) : CanPullIn(Due(dt)[At(o)])}
<1>1. /\ MaySkip(dt) /\ cfg' = cfg
      /\ \/ /\ owing # {}
            /\ LET r == At(Min(owing))
               IN  /\ rank_cursor' = (r + 1) % RankCount
                   /\ \/ /\ CanPostpone(Due(dt)[r], Newly(r, dt), busy)
                         /\ rank_states' = [Due(dt) EXCEPT ![r] = Postponed(@)]
                         /\ age' = Aged(dt)
                      \/ /\ ~CanPostpone(Due(dt)[r], Newly(r, dt), busy)
                         /\ rank_states' = [Due(dt) EXCEPT ![r] = Batch(@)]
                         /\ age' = Refreshed(Aged(dt), r, Due(dt)[r])
         \/ /\ owing = {} /\ idle /\ early # {}
            /\ LET r == At(Min(early))
               IN  /\ rank_cursor' = (r + 1) % RankCount
                   /\ rank_states' = [Due(dt) EXCEPT ![r] = PulledIn(@)]
                   /\ age' = Refreshed(Aged(dt), r, Due(dt)[r])
         \/ /\ owing = {} /\ ~(idle /\ early # {})
            /\ rank_states' = Due(dt) /\ age' = Aged(dt) /\ rank_cursor' = rank_cursor
  BY Zenon DEF Tick, Due, Newly
<1>2. owing \in SUBSET Nat /\ early \in SUBSET Nat
  BY ConfigFacts DEF RankCount
<1>3. owing # {} => Min(owing) \in owing
  <2> HIDE DEF owing
  <2>1. QED
    BY <1>2, LeastOf
<1>4. early # {} => Min(early) \in early
  <2> HIDE DEF early
  <2>1. QED
    BY <1>2, LeastOf
<1>5. CASE owing # {}
  <2> DEFINE r == At(Min(owing))
  <2>1. r \in RankIds /\ Due(dt)[r].credit > 0
    BY <1>3, <1>5, CursorFacts
  <2>2. rank_cursor' = (r + 1) % RankCount
    BY <1>1, <1>5
  <2>3. \/ /\ CanPostpone(Due(dt)[r], Newly(r, dt), busy)
           /\ rank_states' = [Due(dt) EXCEPT ![r] = Postponed(@)]
           /\ age' = Aged(dt)
        \/ /\ rank_states' = [Due(dt) EXCEPT ![r] = Batch(@)]
           /\ age' = Refreshed(Aged(dt), r, Due(dt)[r])
    BY <1>1, <1>5
  <2>4. r \in DOMAIN Due(dt)
    BY <2>1 DEF Due
  <2> HIDE DEF r, owing
  <2>5. PostponeStep(r, dt, busy) \/ BatchStep(r, dt)
    BY <2>1, <2>3, <2>4 DEF PostponeStep, BatchStep
  <2>6. QED
    BY <1>1, <2>1, <2>2, <2>5, CursorFacts
<1>6. CASE owing = {} /\ idle /\ early # {}
  <2> DEFINE r == At(Min(early))
  <2>1. r \in RankIds /\ CanPullIn(Due(dt)[r])
    BY <1>4, <1>6, CursorFacts
  <2>2. /\ rank_cursor' = (r + 1) % RankCount
        /\ rank_states' = [Due(dt) EXCEPT ![r] = PulledIn(@)]
        /\ age' = Refreshed(Aged(dt), r, Due(dt)[r])
    BY <1>1, <1>6
  <2>3. r \in DOMAIN Due(dt)
    BY <2>1 DEF Due
  <2> HIDE DEF r, early, owing
  <2>4. PullInStep(r, dt)
    BY <2>1, <2>2, <2>3 DEF PullInStep
  <2>5. QED
    BY <1>1, <2>1, <2>2, <2>4, CursorFacts
<1>7. CASE owing = {} /\ ~(idle /\ early # {})
  <2>1. rank_states' = Due(dt) /\ age' = Aged(dt) /\ rank_cursor' = rank_cursor
    BY <1>1, <1>7
  <2>2. ASSUME RankCount = 1, NEW r \in RankIds
        PROVE  ~(Due(dt)[r].credit > 0) \/ Waits(Due(dt)[r], Newly(r, dt), busy)
    <3>1. r = 0 /\ At(0) = r /\ 0 \in 0 .. (RankCount - 1)
      BY <2>2, CursorFacts DEF RankIds
    <3>2. 0 \notin owing
      BY <1>7
    <3>3. QED
      BY <3>1, <3>2
  <2>3. QED
    BY <1>1, <2>1, <2>2 DEF QuietStep
<1>8. QED
  BY <1>5, <1>6, <1>7

\* A rank after a tick of its own: its type, and how far its credit and its turns moved.
LEMMA RankSteps ==
    ASSUME Parameters, NEW s \in RankState
    PROVE  /\ CanPostpone(s, TRUE, TRUE) => /\ Postponed(s) \in RankState /\ Postponed(s).credit = s.credit
                                            /\ Postponed(s).postpone_count = s.postpone_count + 1
                                            /\ Postponed(s).flat = s.flat /\ Postponed(s).sid = s.sid
           /\ Batch(s) \in RankState /\ Batch(s).credit = s.credit - 1
           /\ Batch(s).postpone_count = IF s.credit - 1 <= 0 THEN 0 ELSE s.postpone_count
           /\ Batch(s).flat = Rotated(s).flat /\ Batch(s).sid = Rotated(s).sid
           /\ CanPullIn(s) => /\ PulledIn(s) \in RankState /\ PulledIn(s).credit = -1
                              /\ PulledIn(s).postpone_count = s.postpone_count
                              /\ PulledIn(s).flat = Rotated(s).flat /\ PulledIn(s).sid = Rotated(s).sid
<1> DEFINE u == Rotated(s)
<1>1. /\ u \in RankState /\ u.credit = s.credit /\ u.postpone_count = s.postpone_count
      /\ u.pullin_count = s.pullin_count
  BY RotatedTyped
<1>2. /\ s.credit \in Int /\ s.postpone_count \in 0 .. cfg.postpone_limit /\ s.pullin_count \in 0 .. cfg.pullin_limit
      /\ cfg.postpone_limit \in Nat /\ cfg.pullin_limit \in Nat
  BY ConfigFacts DEF RankState
<1>3. ASSUME CanPostpone(s, TRUE, TRUE)
      PROVE  /\ Postponed(s) \in RankState /\ Postponed(s).credit = s.credit
             /\ Postponed(s).postpone_count = s.postpone_count + 1
             /\ Postponed(s).flat = s.flat /\ Postponed(s).sid = s.sid
  <2>1. s.postpone_count + 1 \in 0 .. cfg.postpone_limit
    BY <1>2, <1>3 DEF CanPostpone
  <2>2. Postponed(s) = [s EXCEPT !.postpone_count = s.postpone_count + 1]
    BY DEF Postponed, RankState
  <2>3. QED
    BY <2>1, <2>2 DEF RankState
<1> DEFINE p == IF s.credit - 1 <= 0 THEN 0 ELSE s.postpone_count
<1>4. s.credit - 1 \in Int /\ p \in 0 .. cfg.postpone_limit
  BY <1>2
<1>5. /\ Batch(s) \in RankState /\ Batch(s).credit = s.credit - 1 /\ Batch(s).postpone_count = p
      /\ Batch(s).flat = u.flat /\ Batch(s).sid = u.sid
  <2>1. Batch(s) = [[u EXCEPT !.credit = u.credit - 1] EXCEPT !.postpone_count = IF u.credit - 1 <= 0 THEN 0 ELSE u.postpone_count]
    <3> HIDE DEF u
    <3>1. Batch(s) = LET done == [u EXCEPT !.credit = u.credit - 1]
                     IN  [done EXCEPT !.postpone_count = IF done.credit <= 0 THEN 0 ELSE done.postpone_count]
      BY <1>1 DEF Batch, u
    <3>2. QED
      BY <1>1, <3>1 DEF RankState
  <2>2. Batch(s) = [[u EXCEPT !.credit = s.credit - 1] EXCEPT !.postpone_count = p]
    BY <1>1, <2>1
  <2> HIDE DEF u, p
  <2>3. QED
    BY <1>1, <1>4, <2>2 DEF RankState
<1>6. ASSUME CanPullIn(s)
      PROVE  /\ PulledIn(s) \in RankState /\ PulledIn(s).credit = -1
             /\ PulledIn(s).postpone_count = s.postpone_count
             /\ PulledIn(s).flat = u.flat /\ PulledIn(s).sid = u.sid
  <2>1. s.credit - 1 = -1 /\ -1 \in Int /\ s.pullin_count + 1 \in 0 .. cfg.pullin_limit
    BY <1>2, <1>6 DEF CanPullIn
  <2>2. PulledIn(s) = [[u EXCEPT !.credit = -1] EXCEPT !.pullin_count = s.pullin_count + 1]
    <3> HIDE DEF u
    <3>1. PulledIn(s) = [u EXCEPT !.credit = u.credit - 1, !.pullin_count = u.pullin_count + 1]
      BY <1>1 DEF PulledIn, u, RankState
    <3>2. QED
      BY <1>1, <2>1, <3>1
  <2> HIDE DEF u
  <2>3. QED
    BY <1>1, <2>1, <2>2 DEF RankState
<1>7. QED
  BY <1>3, <1>5, <1>6

\* Neither the clock nor a postponement moves the rotation.
LEMMA SinceDepends ==
    ASSUME NEW s, NEW u, NEW b, u.flat = s.flat, u.sid = s.sid
    PROVE  BatchesSince(u, b) = BatchesSince(s, b)
  BY DEF BatchesSince, TurnIsOver

\* A bank's wait and its rank's credit and turns: what AgeInv says of one bank.
Explained(a, s, b) == a <= s.credit + 1 + BatchesSince(s, b)

LEMMA DueExplained ==
    ASSUME TypeInv, AgeInv, NEW dt \in 1 .. cfg.max_skip, NEW r \in RankIds, NEW b \in BankIds
    PROVE  /\ Due(dt)[r] \in RankState /\ Due(dt)[r].credit >= -1
           /\ Aged(dt)[r][b] \in Nat /\ Explained(Aged(dt)[r][b], Due(dt)[r], b)
<1> DEFINE s == rank_states[r]
           n == Passed(s, dt)
           u == Overdue(s, dt)
<1>1. s \in RankState /\ s.credit \in Int /\ s.credit >= -1 /\ age[r][b] \in Nat /\ Parameters
  BY DEF TypeInv, RankState
<1>2. u \in RankState /\ u.credit = s.credit + n /\ n \in Nat /\ u.flat = s.flat /\ u.sid = s.sid
  BY <1>1, OverdueFacts, MissedFacts
<1>3. Due(dt)[r] = u /\ Aged(dt)[r][b] = age[r][b] + n
  BY DEF Due, Aged
<1>4. BatchesSince(u, b) = BatchesSince(s, b) /\ BatchesSince(s, b) \in Int
  BY <1>1, <1>2, SinceDepends, SinceInRound, RotationFacts
<1>5. age[r][b] <= s.credit + 1 + BatchesSince(s, b)
  BY DEF AgeInv
<1> HIDE DEF s, n, u
<1>6. QED
  BY <1>1, <1>2, <1>3, <1>4, <1>5 DEF Explained

\* A batch pays one refresh: its targets have just been refreshed, the others are one batch further on.
LEMMA RefreshExplained ==
    ASSUME Parameters, NEW s \in RankState, s.credit >= 0, NEW b \in BankIds, NEW a \in Nat, Explained(a, s, b),
           NEW u \in RankState, u.credit = s.credit - 1, u.flat = Rotated(s).flat, u.sid = Rotated(s).sid
    PROVE  Explained(IF b \in Targets(s) THEN 0 ELSE a, u, b)
<1>1. BatchesSince(u, b) = BatchesSince(Rotated(s), b)
  BY SinceDepends
<1>2. BatchesSince(u, b) \in Nat /\ BatchesSince(s, b) \in Nat /\ s.credit \in Int
  BY SinceInRound, RotationFacts DEF RankState
<1>3. CASE b \in Targets(s)
  BY <1>2, <1>3 DEF Explained
<1>4. CASE b \notin Targets(s)
  <2>1. BatchesSince(u, b) = BatchesSince(s, b) + 1
    BY <1>1, <1>4, RotatedSince
  <2>2. a <= s.credit + 1 + BatchesSince(s, b)
    BY DEF Explained
  <2>3. a <= u.credit + 1 + BatchesSince(u, b)
    BY <1>2, <2>1, <2>2
  <2>4. QED
    BY <1>4, <2>3 DEF Explained
<1>5. QED
  BY <1>3, <1>4

-----------------------------------------------------------------------------
(* The invariant is inductive                                                *)

\* What one tick leaves of every rank and bank.
RanksExplained ==
    /\ rank_states' \in [RankIds -> RankState] /\ age' \in [RankIds -> [BankIds -> Nat]]
    /\ \A r \in RankIds : rank_states'[r].credit >= -1
    /\ \A r \in RankIds, b \in BankIds : Explained(age'[r][b], rank_states'[r], b)

LEMMA QuietExplained ==
    ASSUME TypeInv, AgeInv, NEW dt \in 1 .. cfg.max_skip, NEW busy, QuietStep(dt, busy)
    PROVE  RanksExplained
<1>1. rank_states' = Due(dt) /\ age' = Aged(dt)
  BY DEF QuietStep
<1>2. BankIds # {}
  BY SomeBank DEF TypeInv
<1>3. Due(dt) \in [RankIds -> RankState] /\ Aged(dt) \in [RankIds -> [BankIds -> Nat]]
  <2>1. \A r \in RankIds : Due(dt)[r] \in RankState
    BY <1>2, DueExplained
  <2>2. \A r \in RankIds, b \in BankIds : Aged(dt)[r][b] \in Nat
    BY DueExplained
  <2>3. QED
    BY <2>1, <2>2 DEF Due, Aged
<1>4. QED
  BY <1>1, <1>2, <1>3, DueExplained DEF RanksExplained

\* A tick changes one rank more than the clock does.
LEMMA OneRankExplained ==
    ASSUME TypeInv, AgeInv, NEW dt \in 1 .. cfg.max_skip, NEW r \in RankIds,
           NEW u \in RankState, u.credit >= -1, NEW a \in [BankIds -> Nat], \A b \in BankIds : Explained(a[b], u, b),
           rank_states' = [Due(dt) EXCEPT ![r] = u], age' = [Aged(dt) EXCEPT ![r] = a]
    PROVE  RanksExplained
<1>1. BankIds # {}
  BY SomeBank DEF TypeInv
<1>2. /\ Due(dt) \in [RankIds -> RankState] /\ Aged(dt) \in [RankIds -> [BankIds -> Nat]]
      /\ \A x \in RankIds : Due(dt)[x].credit >= -1
  <2>1. \A x \in RankIds : Due(dt)[x] \in RankState /\ Due(dt)[x].credit >= -1
    BY <1>1, DueExplained
  <2>2. \A x \in RankIds, b \in BankIds : Aged(dt)[x][b] \in Nat
    BY DueExplained
  <2>3. QED
    BY <2>1, <2>2 DEF Due, Aged
<1>3. \A x \in RankIds : rank_states'[x] = (IF x = r THEN u ELSE Due(dt)[x]) /\ age'[x] = IF x = r THEN a ELSE Aged(dt)[x]
  BY <1>2
<1>4. rank_states' \in [RankIds -> RankState] /\ age' \in [RankIds -> [BankIds -> Nat]]
  BY <1>2
<1>5. \A x \in RankIds : rank_states'[x].credit >= -1
  BY <1>2, <1>3
<1>6. ASSUME NEW x \in RankIds, NEW b \in BankIds
      PROVE  Explained(age'[x][b], rank_states'[x], b)
  BY <1>3, DueExplained
<1>7. QED
  BY <1>4, <1>5, <1>6 DEF RanksExplained

LEMMA PostponeExplained ==
    ASSUME TypeInv, AgeInv, NEW dt \in 1 .. cfg.max_skip, NEW r \in RankIds, NEW busy, PostponeStep(r, dt, busy)
    PROVE  RanksExplained
<1> DEFINE s == Due(dt)[r]
           u == Postponed(s)
           a == Aged(dt)[r]
<1>1. PICK b \in BankIds : TRUE
  BY SomeBank DEF TypeInv
<1>2. s \in RankState /\ s.credit >= -1
  BY <1>1, DueExplained
<1>3. \A c \in BankIds : Aged(dt)[r][c] \in Nat /\ Explained(a[c], s, c)
  BY DueExplained
<1>4. a \in [BankIds -> Nat]
  BY <1>3 DEF Aged
<1>5. CanPostpone(s, TRUE, TRUE)
  BY DEF PostponeStep, CanPostpone
<1>6. u \in RankState /\ u.credit = s.credit /\ u.flat = s.flat /\ u.sid = s.sid
  BY <1>2, <1>5, RankSteps DEF TypeInv
<1>7. \A c \in BankIds : Explained(a[c], u, c)
  BY <1>3, <1>6, SinceDepends DEF Explained
<1>8. rank_states' = [Due(dt) EXCEPT ![r] = u] /\ age' = [Aged(dt) EXCEPT ![r] = a]
  BY DEF PostponeStep, Aged
<1> HIDE DEF s, u, a
<1>9. QED
  BY <1>2, <1>4, <1>6, <1>7, <1>8, OneRankExplained

\* A batch, owed or early.
LEMMA BatchExplained ==
    ASSUME TypeInv, AgeInv, NEW dt \in 1 .. cfg.max_skip, NEW r \in RankIds, BatchStep(r, dt) \/ PullInStep(r, dt)
    PROVE  RanksExplained
<1> DEFINE s == Due(dt)[r]
           u == IF BatchStep(r, dt) THEN Batch(s) ELSE PulledIn(s)
           a == [b \in BankIds |-> IF b \in Targets(s) THEN 0 ELSE Aged(dt)[r][b]]
<1>1. PICK b \in BankIds : TRUE
  BY SomeBank DEF TypeInv
<1>2. s \in RankState /\ Parameters /\ s.credit \in Int
  BY <1>1, DueExplained DEF TypeInv, RankState
<1>3. \A c \in BankIds : Aged(dt)[r][c] \in Nat /\ Explained(Aged(dt)[r][c], s, c)
  BY DueExplained
<1>4. s.credit >= 0 /\ u \in RankState /\ u.credit = s.credit - 1 /\ u.flat = Rotated(s).flat /\ u.sid = Rotated(s).sid
  <2>1. CASE BatchStep(r, dt)
    <3>1. s.credit > 0 /\ u = Batch(s)
      BY <2>1 DEF BatchStep
    <3> HIDE DEF s, u
    <3>2. /\ Batch(s) \in RankState /\ Batch(s).credit = s.credit - 1
          /\ Batch(s).flat = Rotated(s).flat /\ Batch(s).sid = Rotated(s).sid
      BY <1>2, RankSteps
    <3>3. QED
      BY <1>2, <3>1, <3>2
  <2>2. CASE ~BatchStep(r, dt)
    <3>1. CanPullIn(s) /\ u = PulledIn(s)
      BY <2>2 DEF PullInStep
    <3>2. s.credit = 0
      BY <3>1 DEF CanPullIn
    <3> HIDE DEF s, u
    <3>3. /\ PulledIn(s) \in RankState /\ PulledIn(s).credit = -1
          /\ PulledIn(s).flat = Rotated(s).flat /\ PulledIn(s).sid = Rotated(s).sid
      BY <1>2, <3>1, RankSteps
    <3>4. QED
      BY <1>2, <3>1, <3>2, <3>3
  <2>3. QED
    BY <2>1, <2>2
<1>5. \A c \in BankIds : Explained(a[c], u, c)
  <2> TAKE c \in BankIds
  <2>1. a[c] = IF c \in Targets(s) THEN 0 ELSE Aged(dt)[r][c]
    OBVIOUS
  <2> HIDE DEF s, u, a
  <2>2. QED
    BY <1>2, <1>3, <1>4, <2>1, RefreshExplained
<1>6. a \in [BankIds -> Nat]
  BY <1>3
<1>7. rank_states' = [Due(dt) EXCEPT ![r] = u] /\ age' = [Aged(dt) EXCEPT ![r] = a]
  BY DEF BatchStep, PullInStep, Refreshed
<1>8. u.credit >= -1
  <2> HIDE DEF s, u
  <2>1. QED
    BY <1>2, <1>4
<1> HIDE DEF s, u, a
<1>9. QED
  BY <1>4, <1>5, <1>6, <1>7, <1>8, OneRankExplained

\* With one rank nothing but postponement, by a deadline each, and what was missed at once adds to the debt.
LEMMA OwesStep ==
    ASSUME TypeInv, OwesInv, RankCount = 1, NEW dt \in 1 .. cfg.max_skip, NEW busy \in BOOLEAN, MaySkip(dt),
           (\E r \in RankIds : PostponeStep(r, dt, busy) \/ BatchStep(r, dt) \/ PullInStep(r, dt)) \/ QuietStep(dt, busy)
    PROVE  Owes(rank_states'[0])
<1> DEFINE s == rank_states[0]
           n == Passed(s, dt)
           d == Overdue(s, dt)
           v == rank_states'[0]
           M == MissedAtOnce
           L == cfg.credit_limit
<1>1. RankIds = {0} /\ Parameters
  BY CursorFacts DEF TypeInv
<1>2. /\ s \in RankState /\ s.credit \in Int /\ s.credit >= -1 /\ s.postpone_count \in Nat /\ M \in Nat \ {0}
      /\ L \in Nat
  BY <1>1, ConfigFacts, MissedFacts DEF TypeInv, RankState
<1>3. /\ n \in 0 .. M /\ (dt = 1 => n <= 1) /\ d \in RankState /\ d.credit = s.credit + n
      /\ d.postpone_count = s.postpone_count
  BY <1>1, <1>2, OverdueFacts
<1>4. s.credit > 0 => n <= 1
  BY <1>1, <1>2, <1>3 DEF MaySkip
<1>5. s.credit <= s.postpone_count + M - 1 /\ (L # 0 => s.credit <= L \/ s.credit <= M - 1)
  BY DEF OwesInv, Owes
<1>6. Due(dt) = [r \in RankIds |-> Overdue(rank_states[r], dt)] /\ Due(dt)[0] = d /\ Newly(0, dt) = (n > 0)
  BY <1>1 DEF Due, Newly
<1>7. ASSUME v.credit \in Int, v.postpone_count \in Nat, v.credit <= v.postpone_count + M - 1,
             L # 0 => v.credit <= L \/ v.credit <= M - 1
      PROVE  Owes(v)
  BY <1>7 DEF Owes
<1>8. CASE PostponeStep(0, dt, busy)
  <2>1. v = Postponed(d) /\ CanPostpone(d, n > 0, busy)
    BY <1>1, <1>6, <1>8 DEF PostponeStep
  <2>2. n > 0 /\ (L = 0 \/ d.credit <= L) /\ CanPostpone(d, TRUE, TRUE)
    BY <2>1 DEF CanPostpone
  <2> HIDE DEF s, n, d, v, M, L
  <2>3. /\ Postponed(d).credit = d.credit /\ Postponed(d).postpone_count = d.postpone_count + 1
        /\ v = Postponed(d)
    BY <1>1, <1>3, <2>1, <2>2, RankSteps
  <2>4. Owes(v)
    BY <1>2, <1>3, <1>4, <1>5, <1>7, <2>2, <2>3
  <2>5. QED
    BY <2>4 DEF v
<1>9. CASE BatchStep(0, dt)
  <2>1. v = Batch(d)
    BY <1>1, <1>6, <1>9 DEF BatchStep
  <2> HIDE DEF s, n, d, v, M, L
  <2>2. /\ Batch(d).credit = d.credit - 1 /\ v = Batch(d)
        /\ Batch(d).postpone_count = IF d.credit - 1 <= 0 THEN 0 ELSE d.postpone_count
    BY <1>1, <1>3, <2>1, RankSteps
  <2>3. Owes(v)
    BY <1>2, <1>3, <1>4, <1>5, <1>7, <2>2
  <2>4. QED
    BY <2>3 DEF v
<1>10. CASE PullInStep(0, dt)
  <2>1. v = PulledIn(d) /\ CanPullIn(d)
    BY <1>1, <1>6, <1>10 DEF PullInStep
  <2> HIDE DEF s, n, d, v, M, L
  <2>2. PulledIn(d).credit = -1 /\ PulledIn(d).postpone_count = d.postpone_count /\ v = PulledIn(d)
    BY <1>1, <1>3, <2>1, RankSteps
  <2>3. Owes(v)
    BY <1>2, <1>3, <1>7, <2>2
  <2>4. QED
    BY <2>3 DEF v
<1>11. CASE QuietStep(dt, busy)
  <2>1. v = d /\ (~(d.credit > 0) \/ Waits(d, n > 0, busy))
    BY <1>1, <1>6, <1>11 DEF QuietStep
  <2>2. ~(d.credit > 0) \/ ~(n > 0)
    BY <2>1 DEF Waits
  <2> HIDE DEF s, n, d, v, M, L
  <2>3. Owes(v)
    BY <1>2, <1>3, <1>5, <1>7, <2>1, <2>2
  <2>4. QED
    BY <2>3 DEF v
<1>12. QED
  BY <1>1, <1>8, <1>9, <1>10, <1>11

LEMMA InitDebt == RefreshAssumption /\ Init => DebtInv
<1> SUFFICES ASSUME RefreshAssumption, Init
             PROVE  DebtInv
  OBVIOUS
<1>1. Parameters
  BY DEF Init, Parameters
<1> DEFINE s == [wait |-> Interval, credit |-> 0, postpone_count |-> 0, pullin_count |-> 0, flat |-> 0, sid |-> 0]
<1>2. Interval \in Nat \ {0} /\ PositionsPerSid \in Nat \ {0} /\ MissedAtOnce \in Nat \ {0} /\ RankCount \in Nat \ {0}
  BY <1>1, ConfigFacts, MissedFacts DEF Interval, RankCount
<1>3. s \in RankState
  BY <1>1, <1>2, ConfigFacts DEF RankState
<1>4. rank_states = [r \in RankIds |-> s] /\ age = [r \in RankIds |-> [b \in BankIds |-> 0]] /\ rank_cursor = 0
  BY DEF Init
<1>5. TypeInv
  BY <1>1, <1>2, <1>3, <1>4 DEF TypeInv, RankIds
<1>6. AgeInv
  <2> SUFFICES ASSUME NEW r \in RankIds, NEW b \in BankIds
               PROVE  age[r][b] <= rank_states[r].credit + 1 + BatchesSince(rank_states[r], b)
    BY DEF AgeInv
  <2>1. rank_states[r] = s /\ age[r][b] = 0
    BY <1>4
  <2>2. BatchesSince(s, b) \in 0 .. (Rotation - 1) /\ Rotation \in Nat
    BY <1>1, <1>3, SinceInRound, RotationFacts
  <2>3. s.credit = 0
    OBVIOUS
  <2> HIDE DEF s
  <2>4. QED
    BY <2>1, <2>2, <2>3
<1>7. OwesInv
  <2>1. ASSUME RankCount = 1
        PROVE  Owes(rank_states[0])
    <3>1. rank_states[0] = s
      BY <1>4, <2>1 DEF RankIds
    <3>2. QED
      BY <1>2, <3>1 DEF Owes
  <2>2. QED
    BY <2>1 DEF OwesInv
<1>8. QED
  BY <1>5, <1>6, <1>7 DEF DebtInv

LEMMA NextDebt == DebtInv /\ [Next]_vars => DebtInv'
<1> SUFFICES ASSUME DebtInv, [Next]_vars
             PROVE  DebtInv'
  OBVIOUS
<1>0. TypeInv /\ AgeInv /\ OwesInv /\ Parameters /\ rank_cursor \in RankIds
  BY DEF DebtInv, TypeInv
<1>1. CASE Next
  <2>1. PICK dt \in 1 .. cfg.max_skip, busy \in BOOLEAN, idle \in BOOLEAN : Tick(dt, busy, idle)
    BY <1>1 DEF Next, Working, Draining, Idle
  <2>2. /\ MaySkip(dt) /\ cfg' = cfg /\ rank_cursor' \in RankIds
        /\ (\E r \in RankIds : PostponeStep(r, dt, busy) \/ BatchStep(r, dt) \/ PullInStep(r, dt)) \/ QuietStep(dt, busy)
    BY <1>0, <2>1, TickCases
  <2>3. RanksExplained
    BY <1>0, <2>2, QuietExplained, PostponeExplained, BatchExplained
  <2>4. TypeInv'
    BY <1>0, <2>2, <2>3
    DEF TypeInv, RanksExplained, Parameters, RefreshAssumption, RankIds, RankCount, BankIds, RankState, Interval,
        PositionsPerSid
  <2>5. AgeInv'
    <3>1. ASSUME NEW r \in RankIds, NEW b \in BankIds
          PROVE  age'[r][b] <= rank_states'[r].credit + 1 + BatchesSince(rank_states'[r], b)
      BY <2>3 DEF RanksExplained, Explained
    <3>2. RankIds' = RankIds /\ BankIds' = BankIds /\ PositionsPerSid' = PositionsPerSid
      BY <2>2 DEF RankIds, RankCount, BankIds, PositionsPerSid
    <3>3. ASSUME NEW r \in RankIds, NEW b \in BankIds
          PROVE  BatchesSince(rank_states[r], b)' = BatchesSince(rank_states'[r], b)
      BY <2>2, <3>2 DEF BatchesSince, TurnIsOver, Position, Group
    <3>4. QED
      BY <3>1, <3>2, <3>3 DEF AgeInv
  <2>6. OwesInv'
    <3>1. RankCount = 1 => Owes(rank_states'[0])
      BY <1>0, <2>2, OwesStep
    <3>2. QED
      BY <2>2, <3>1 DEF OwesInv, RankCount, Owes, MissedAtOnce, Interval
  <2>7. QED
    BY <2>4, <2>5, <2>6 DEF DebtInv
<1>2. CASE UNCHANGED vars
  <2>1. cfg' = cfg /\ rank_states' = rank_states /\ rank_cursor' = rank_cursor /\ age' = age
    BY <1>2 DEF vars
  <2>2. TypeInv'
    BY <1>0, <2>1
    DEF TypeInv, Parameters, RefreshAssumption, RankIds, RankCount, BankIds, RankState, Interval, PositionsPerSid
  <2>3. AgeInv'
    <3>1. RankIds' = RankIds /\ BankIds' = BankIds /\ PositionsPerSid' = PositionsPerSid
      BY <2>1 DEF RankIds, RankCount, BankIds, PositionsPerSid
    <3>2. ASSUME NEW r \in RankIds, NEW b \in BankIds
          PROVE  BatchesSince(rank_states[r], b)' = BatchesSince(rank_states[r], b)
      BY <2>1, <3>1 DEF BatchesSince, TurnIsOver, Position, Group
    <3>3. QED
      BY <1>0, <2>1, <3>1, <3>2 DEF AgeInv
  <2>4. OwesInv'
    BY <1>0, <2>1 DEF OwesInv, RankCount, Owes, MissedAtOnce, Interval
  <2>5. QED
    BY <2>2, <2>3, <2>4 DEF DebtInv
<1>3. QED
  BY <1>1, <1>2

LEMMA AlwaysDebtInv ==
    ASSUME RefreshAssumption
    PROVE  Spec => []DebtInv
  BY InitDebt, NextDebt, PTL DEF Spec

-----------------------------------------------------------------------------
(* The theorems                                                              *)

\* In every configuration the counters and cursors of every rank keep their ranges, the clock to the
\* next deadline wraps where it should however many deadlines pass at once, and the round-robin over
\* the ranks never leaves them.
THEOREM RefreshTypeCorrect ==
    ASSUME RefreshAssumption
    PROVE  Spec => []TypeOK
<1>1. DebtInv => TypeOK
  BY DEF DebtInv, TypeInv, RankState, TypeOK
<1>2. QED
  BY <1>1, AlwaysDebtInv, PTL

\* The rotation over banks, refresh pairs, SIDs and early refreshes never costs a bank more than its
\* rank's debt: with any number of ranks, as long as no rank owes more than the limits allow, no bank
\* waits for more deadlines than a whole rotation and that debt.
THEOREM RetentionFollowsDebt ==
    ASSUME RefreshAssumption
    PROVE  Spec => [](DebtBounded => RetentionKept)
<1>1. ASSUME DebtInv, DebtBounded
      PROVE  RetentionKept
  <2> SUFFICES ASSUME NEW r \in RankIds, NEW b \in BankIds
               PROVE  age[r][b] <= Rotation + DebtLimit
    BY DEF RetentionKept
  <2>1. Parameters /\ rank_states[r] \in RankState /\ age[r][b] \in Nat /\ rank_states[r].credit \in Int
    BY <1>1 DEF DebtInv, TypeInv, RankState
  <2>2. age[r][b] <= rank_states[r].credit + 1 + BatchesSince(rank_states[r], b)
    BY <1>1 DEF DebtInv, AgeInv
  <2>3. BatchesSince(rank_states[r], b) \in 0 .. (Rotation - 1) /\ Rotation \in Nat /\ DebtLimit \in Int
    BY <2>1, SinceInRound, RotationFacts, LimitFacts
  <2>4. rank_states[r].credit <= DebtLimit
    BY <1>1, <2>1, <2>3 DEF DebtBounded
  <2>5. QED
    BY <2>1, <2>2, <2>3, <2>4
<1>2. DebtInv /\ DebtBounded => RetentionKept
  BY <1>1
<1>3. DebtInv => (DebtBounded => RetentionKept)
  BY <1>2
<1>4. QED
  BY <1>3, AlwaysDebtInv, PTL

\* A rank that shares its manager with no other never owes more than the postponement and credit limits
\* and the deadlines missed at once allow, nor runs more than one refresh ahead, and so no bank outwaits
\* a rotation and that debt, for any limits, interval and organisation.
THEOREM DebtIsBounded ==
    ASSUME RefreshAssumption
    PROVE  Spec => [](RankCount = 1 => DebtBounded /\ RetentionKept)
<1>1. ASSUME DebtInv, RankCount = 1
      PROVE  DebtBounded
  <2>1. Parameters /\ RankIds = {0}
    BY <1>1, CursorFacts DEF DebtInv, TypeInv
  <2> DEFINE s == rank_states[0]
  <2>2. /\ s.credit \in Int /\ s.credit >= -1 /\ s.postpone_count \in 0 .. cfg.postpone_limit
        /\ MissedAtOnce \in Nat \ {0} /\ cfg.postpone_limit \in Nat /\ cfg.credit_limit \in Nat
    BY <1>1, <2>1, ConfigFacts, MissedFacts DEF DebtInv, TypeInv, RankState
  <2>3. /\ s.credit <= s.postpone_count + MissedAtOnce - 1
        /\ cfg.credit_limit # 0 => s.credit <= cfg.credit_limit \/ s.credit <= MissedAtOnce - 1
    BY <1>1 DEF DebtInv, OwesInv, Owes
  <2>4. /\ DebtLimit \in Int /\ DebtLimit >= MissedAtOnce
        /\ cfg.credit_limit = 0 => DebtLimit >= cfg.postpone_limit + MissedAtOnce - 1
        /\ cfg.credit_limit # 0 => \/ DebtLimit >= cfg.postpone_limit + MissedAtOnce - 1
                                   \/ DebtLimit >= cfg.credit_limit + MissedAtOnce - 1
    BY <2>1, LimitFacts
  <2> HIDE DEF s
  <2>5. s.credit \in (-1) .. DebtLimit
    BY <2>2, <2>3, <2>4
  <2>6. QED
    BY <2>1, <2>5 DEF DebtBounded, s
<1>2. DebtInv => (RankCount = 1 => DebtBounded)
  BY <1>1
<1>3. QED
  BY <1>2, AlwaysDebtInv, RetentionFollowsDebt, PTL

-----------------------------------------------------------------------------
(* Refresh management                                                        *)

OneKind == \A i \in DOMAIN queue : queue[i].cmd # IF AllBank THEN "RFMPB" ELSE "RFMAB"
RfmInv == RfmTypeOK /\ OneKind /\ FlagsExact /\ ReliefQueued /\ ActsBounded

\* What the queue holds after a command was put at its end, or taken from its head.
LEMMA Appended ==
    ASSUME NEW q \in Seq(RfmCommands), NEW c \in RfmCommands
    PROVE  /\ Append(q, c) \in Seq(RfmCommands) /\ DOMAIN Append(q, c) = 1..(Len(q) + 1)
           /\ DOMAIN q = 1..Len(q) /\ Len(q) \in Nat
           /\ \A i \in 1..Len(q) : Append(q, c)[i] = q[i]
           /\ Append(q, c)[Len(q) + 1] = c
  OBVIOUS

LEMMA Dropped ==
    ASSUME NEW q \in Seq(RfmCommands), q # <<>>
    PROVE  /\ Tail(q) \in Seq(RfmCommands) /\ DOMAIN Tail(q) = 1..(Len(q) - 1)
           /\ DOMAIN q = 1..Len(q) /\ Len(q) \in Nat \ {0} /\ Head(q) = q[1] /\ Head(q) \in RfmCommands
           /\ \A i \in 1..(Len(q) - 1) : Tail(q)[i] = q[i + 1]
  OBVIOUS

\* The initial state satisfies the invariant.
LEMMA RfmInitInv == RfmInit => RfmInv
  BY RfmAssumption DEF RfmInit, RfmInv, RfmTypeOK, OneKind, FlagsExact, ReliefQueued, ActsBounded, Waiting, WaitingAll, RfmCommands

\* Counting an activation keeps the invariant, if the count was below the threshold where that matters.
LEMMA RfmActivateInv ==
    ASSUME RfmInv, NEW b \in Banks, on_activate(b), ~Reopens => act_count_since_rfm[b] < Threshold
    PROVE  RfmInv'
<1>0. /\ act_count_since_rfm \in [Banks -> Nat] /\ queue \in Seq(RfmCommands) /\ RankOf[b] \in Ranks
      /\ rfm_pending_bank \in [Banks -> BOOLEAN] /\ rfm_pending_all_bank \in [Ranks -> BOOLEAN]
      /\ act_count_since_rfm' = [act_count_since_rfm EXCEPT ![b] = @ + 1] /\ RankOf \in [Banks -> Ranks]
  BY RfmAssumption DEF RfmInv, RfmTypeOK, on_activate
<1>1. CASE ~Calls(b)
  <2>1. UNCHANGED <<rfm_pending_bank, rfm_pending_all_bank, queue>>
    BY <1>1 DEF on_activate
  <2>2. RfmTypeOK' /\ OneKind' /\ FlagsExact'
    BY <1>0, <2>1 DEF RfmInv, RfmTypeOK, OneKind, FlagsExact, Waiting, WaitingAll
  <2>3. ReliefQueued' /\ ActsBounded'
    BY <1>0, <1>1, <2>1, RfmAssumption DEF RfmInv, ReliefQueued, ActsBounded, Calls
  <2> QED BY <2>2, <2>3 DEF RfmInv
<1>2. CASE Calls(b) /\ AllBank
  <2> DEFINE c == [cmd |-> "RFMAB", bank |-> b]
  <2>1. /\ rfm_pending_all_bank' = [rfm_pending_all_bank EXCEPT ![RankOf[b]] = TRUE]
        /\ queue' = Append(queue, c) /\ UNCHANGED rfm_pending_bank /\ c \in RfmCommands
        /\ ~rfm_pending_all_bank[RankOf[b]]
    BY <1>2 DEF on_activate, Calls, RfmCommands
  <2>2. RfmTypeOK' /\ OneKind'
    BY <1>0, <1>2, <2>1, Appended DEF RfmInv, RfmTypeOK, OneKind
  <2>3. FlagsExact'
    <3>1. \A x \in Banks : Waiting(x)' = Waiting(x)
      BY <1>0, <2>1, Appended DEF Waiting
    <3>2. \A r \in Ranks : WaitingAll(r)' = IF r = RankOf[b] THEN WaitingAll(r) \cup {Len(queue) + 1} ELSE WaitingAll(r)
      BY <1>0, <2>1, Appended DEF WaitingAll
    <3>3. WaitingAll(RankOf[b]) = {} /\ FlagsExact
      BY <1>0, <2>1 DEF RfmInv, FlagsExact
    <3>4. \A x \in Banks : (rfm_pending_bank'[x] <=> Waiting(x)' # {}) /\ \A i, j \in Waiting(x)' : i = j
      BY <2>1, <3>1, <3>3 DEF FlagsExact
    <3>5. ASSUME NEW r \in Ranks
          PROVE  (rfm_pending_all_bank'[r] <=> WaitingAll(r)' # {}) /\ \A i, j \in WaitingAll(r)' : i = j
      <4>1. CASE r = RankOf[b]
        BY <1>0, <2>1, <3>2, <3>3, <4>1
      <4>2. CASE r # RankOf[b]
        BY <1>0, <2>1, <3>2, <3>3, <4>2 DEF FlagsExact
      <4> QED BY <4>1, <4>2
    <3> QED BY <3>4, <3>5 DEF FlagsExact
  <2>4. ReliefQueued' /\ ActsBounded'
    BY <1>0, <1>2, <2>1, RfmAssumption DEF RfmInv, ReliefQueued, ActsBounded
  <2> QED BY <2>2, <2>3, <2>4 DEF RfmInv
<1>3. CASE Calls(b) /\ ~AllBank
  <2> DEFINE c == [cmd |-> "RFMPB", bank |-> b]
  <2>1. /\ rfm_pending_bank' = [rfm_pending_bank EXCEPT ![b] = TRUE]
        /\ queue' = Append(queue, c) /\ UNCHANGED rfm_pending_all_bank /\ c \in RfmCommands
        /\ ~rfm_pending_bank[b]
    BY <1>3 DEF on_activate, Calls, RfmCommands
  <2>2. RfmTypeOK' /\ OneKind'
    BY <1>0, <1>3, <2>1, Appended DEF RfmInv, RfmTypeOK, OneKind
  <2>3. FlagsExact'
    <3>1. \A r \in Ranks : WaitingAll(r)' = WaitingAll(r)
      BY <1>0, <2>1, Appended DEF WaitingAll
    <3>2. \A x \in Banks : Waiting(x)' = IF x = b THEN Waiting(x) \cup {Len(queue) + 1} ELSE Waiting(x)
      BY <1>0, <2>1, Appended DEF Waiting
    <3>3. Waiting(b) = {} /\ FlagsExact
      BY <1>0, <2>1 DEF RfmInv, FlagsExact
    <3>4. \A r \in Ranks : (rfm_pending_all_bank'[r] <=> WaitingAll(r)' # {}) /\ \A i, j \in WaitingAll(r)' : i = j
      BY <2>1, <3>1, <3>3 DEF FlagsExact
    <3>5. ASSUME NEW x \in Banks
          PROVE  (rfm_pending_bank'[x] <=> Waiting(x)' # {}) /\ \A i, j \in Waiting(x)' : i = j
      <4>1. CASE x = b
        BY <1>0, <2>1, <3>2, <3>3, <4>1
      <4>2. CASE x # b
        BY <1>0, <2>1, <3>2, <3>3, <4>2 DEF FlagsExact
      <4> QED BY <4>1, <4>2
    <3> QED BY <3>4, <3>5 DEF FlagsExact
  <2>4. ReliefQueued' /\ ActsBounded'
    BY <1>0, <1>3, <2>1, RfmAssumption DEF RfmInv, ReliefQueued, ActsBounded
  <2> QED BY <2>2, <2>3, <2>4 DEF RfmInv
<1> QED BY <1>1, <1>2, <1>3

\* Issuing the head of the queue keeps the invariant.
LEMMA RfmIssueInv == ASSUME RfmInv, IssueRfm PROVE RfmInv'
<1>0. /\ act_count_since_rfm \in [Banks -> Nat] /\ queue \in Seq(RfmCommands) /\ RankOf \in [Banks -> Ranks]
      /\ rfm_pending_bank \in [Banks -> BOOLEAN] /\ rfm_pending_all_bank \in [Ranks -> BOOLEAN]
      /\ queue # <<>> /\ queue' = Tail(queue)
      /\ Threshold \in Nat \ {0} /\ Decrement \in Nat \ {0}
  BY RfmAssumption DEF RfmInv, RfmTypeOK, IssueRfm
<1> PICK h \in RfmCommands : h = Head(queue)
  BY <1>0, Dropped
<1> DEFINE b == h.bank
<1>a. h \in RfmCommands /\ b \in Banks /\ RankOf[b] \in Ranks /\ 1 \in DOMAIN queue /\ queue[1] = h
  <2>1. h \in RfmCommands /\ 1 \in DOMAIN queue /\ queue[1] = h
    BY <1>0, Dropped
  <2>2. b \in Banks
    BY <2>1 DEF RfmCommands
  <2> QED BY <1>0, <2>1, <2>2
<1>b. \A n \in Nat : Less(n) \in Nat /\ (n <= Threshold => Less(n) < Threshold) /\ Less(n) <= n
  BY <1>0 DEF Less
<1>c. OneKind'
  BY <1>0, Dropped DEF RfmInv, OneKind
<1>d. /\ \A x \in Banks : \A i : i \in Waiting(x)' <=> i \in 1..(Len(queue) - 1) /\ i + 1 \in Waiting(x)
      /\ \A r \in Ranks : \A i : i \in WaitingAll(r)' <=> i \in 1..(Len(queue) - 1) /\ i + 1 \in WaitingAll(r)
  BY <1>0, Dropped DEF Waiting, WaitingAll
<1>e. /\ \A x \in Banks : Waiting(x) \subseteq 1..Len(queue)
      /\ \A r \in Ranks : WaitingAll(r) \subseteq 1..Len(queue)
      /\ Len(queue) \in Nat
  BY <1>0, Dropped DEF Waiting, WaitingAll
<1>f. /\ \A x \in Banks : 1 \notin Waiting(x) => (Waiting(x)' # {} <=> Waiting(x) # {})
      /\ \A r \in Ranks : 1 \notin WaitingAll(r) => (WaitingAll(r)' # {} <=> WaitingAll(r) # {})
  <2>1. ASSUME NEW x \in Banks, 1 \notin Waiting(x), NEW i \in Waiting(x) PROVE i - 1 \in Waiting(x)'
    BY <1>d, <1>e, <2>1
  <2>2. ASSUME NEW r \in Ranks, 1 \notin WaitingAll(r), NEW i \in WaitingAll(r) PROVE i - 1 \in WaitingAll(r)'
    BY <1>d, <1>e, <2>2
  <2>3. /\ \A x \in Banks : \A i \in Waiting(x)' : i + 1 \in Waiting(x)
        /\ \A r \in Ranks : \A i \in WaitingAll(r)' : i + 1 \in WaitingAll(r)
    BY <1>d
  <2> QED BY <2>1, <2>2, <2>3
<1>g. /\ \A x \in Banks : \A i, j \in Waiting(x)' : i = j
      /\ \A r \in Ranks : \A i, j \in WaitingAll(r)' : i = j
  <2>1. ASSUME NEW x \in Banks, NEW i \in Waiting(x)', NEW j \in Waiting(x)' PROVE i = j
    BY <1>d, <2>1 DEF RfmInv, FlagsExact
  <2>2. ASSUME NEW r \in Ranks, NEW i \in WaitingAll(r)', NEW j \in WaitingAll(r)' PROVE i = j
    BY <1>d, <2>2 DEF RfmInv, FlagsExact
  <2> QED BY <2>1, <2>2
<1>1. CASE h.cmd = "other"
  <2>1. UNCHANGED <<act_count_since_rfm, rfm_pending_bank, rfm_pending_all_bank>>
    BY <1>1 DEF IssueRfm
  <2>2. \A x \in Banks : 1 \notin Waiting(x)
    BY <1>1, <1>a DEF Waiting
  <2>3. \A r \in Ranks : 1 \notin WaitingAll(r)
    BY <1>1, <1>a DEF WaitingAll
  <2>4. FlagsExact'
    BY <1>f, <1>g, <2>1, <2>2, <2>3 DEF RfmInv, FlagsExact
  <2>5. queue' \in Seq(RfmCommands)
    BY <1>0, Dropped
  <2>6. RfmTypeOK' /\ ReliefQueued' /\ ActsBounded'
    BY <1>0, <2>1, <2>5 DEF RfmInv, RfmTypeOK, ReliefQueued, ActsBounded
  <2> QED BY <1>c, <2>4, <2>6 DEF RfmInv
<1>2. CASE h.cmd = "RFMPB"
  <2>1. /\ act_count_since_rfm' = [act_count_since_rfm EXCEPT ![b] = Less(@)]
        /\ rfm_pending_bank' = [rfm_pending_bank EXCEPT ![b] = FALSE]
        /\ UNCHANGED rfm_pending_all_bank
    BY <1>2 DEF IssueRfm, on_rfmpb
  <2>a. queue' \in Seq(RfmCommands)
    BY <1>0, Dropped
  <2>b. RfmTypeOK'
    BY <1>0, <1>a, <1>b, <2>1, <2>a DEF RfmTypeOK
  <2>c. \A x \in Banks : act_count_since_rfm'[x] <= act_count_since_rfm[x] /\ act_count_since_rfm'[x] \in Nat
    <3> SUFFICES ASSUME NEW x \in Banks
                 PROVE  act_count_since_rfm'[x] <= act_count_since_rfm[x] /\ act_count_since_rfm'[x] \in Nat
      OBVIOUS
    <3>1. act_count_since_rfm[x] \in Nat /\ Less(act_count_since_rfm[x]) \in Nat
          /\ Less(act_count_since_rfm[x]) <= act_count_since_rfm[x]
      BY <1>0, <1>b
    <3>2. act_count_since_rfm'[x] = IF x = b THEN Less(act_count_since_rfm[x]) ELSE act_count_since_rfm[x]
      BY <1>0, <2>1
    <3> QED BY <3>1, <3>2
  <2>d. ActsBounded'
    BY <1>0, <2>c DEF RfmInv, ActsBounded
  <2>2. RfmTypeOK' /\ ActsBounded'
    BY <2>b, <2>d
  <2>3. FlagsExact'
    <3>1. \A x \in Banks : 1 \in Waiting(x) <=> x = b
      BY <1>2, <1>a DEF Waiting
    <3>2. \A r \in Ranks : 1 \notin WaitingAll(r)
      BY <1>2, <1>a DEF WaitingAll
    <3>3. \A x \in Banks : rfm_pending_bank'[x] <=> Waiting(x)' # {}
      <4> SUFFICES ASSUME NEW x \in Banks PROVE rfm_pending_bank'[x] <=> Waiting(x)' # {}
        OBVIOUS
      <4>1. CASE x = b
        <5>1. \A i \in Waiting(b) : i = 1
          BY <3>1, <1>a DEF RfmInv, FlagsExact
        <5>2. \A i : i \notin Waiting(b)'
          BY <1>a, <1>d, <5>1
        <5> QED BY <1>0, <1>a, <2>1, <4>1, <5>2
      <4>2. CASE x # b
        BY <1>0, <1>f, <2>1, <3>1, <4>2 DEF RfmInv, FlagsExact
      <4> QED BY <4>1, <4>2
    <3>4. \A r \in Ranks : rfm_pending_all_bank'[r] <=> WaitingAll(r)' # {}
      BY <1>f, <2>1, <3>2 DEF RfmInv, FlagsExact
    <3> QED BY <1>g, <3>3, <3>4 DEF FlagsExact
  <2>4. ReliefQueued'
    <3>1. ~AllBank
      BY <1>2, <1>a DEF RfmInv, OneKind
    <3>2. ~Reopens => act_count_since_rfm'[b] < Threshold
      BY <1>0, <1>a, <1>b, <2>1 DEF RfmInv, ActsBounded
    <3>3. \A x \in Banks \ {b} : act_count_since_rfm'[x] = act_count_since_rfm[x] /\ rfm_pending_bank'[x] = rfm_pending_bank[x]
      BY <1>0, <1>a, <2>1
    <3> QED BY <1>0, <2>c, <3>1, <3>2, <3>3 DEF RfmInv, ReliefQueued
  <2> QED BY <1>c, <2>2, <2>3, <2>4 DEF RfmInv
<1>3. CASE h.cmd = "RFMAB"
  <2>1. /\ act_count_since_rfm' =
               [x \in Banks |-> IF RankOf[x] = RankOf[b] THEN Less(act_count_since_rfm[x]) ELSE act_count_since_rfm[x]]
        /\ rfm_pending_bank' = [x \in Banks |-> rfm_pending_bank[x] /\ RankOf[x] # RankOf[b]]
        /\ rfm_pending_all_bank' = [rfm_pending_all_bank EXCEPT ![RankOf[b]] = FALSE]
    BY <1>3 DEF IssueRfm, on_rfmab
  <2>a. queue' \in Seq(RfmCommands)
    BY <1>0, Dropped
  <2>b. RfmTypeOK'
    BY <1>0, <1>a, <1>b, <2>1, <2>a DEF RfmTypeOK
  <2>c. \A x \in Banks : act_count_since_rfm'[x] <= act_count_since_rfm[x] /\ act_count_since_rfm'[x] \in Nat
    BY <1>0, <1>a, <1>b, <2>1
  <2>d. ActsBounded'
    BY <1>0, <2>c DEF RfmInv, ActsBounded
  <2>2. RfmTypeOK' /\ ActsBounded'
    BY <2>b, <2>d
  <2>3. AllBank
    BY <1>3, <1>a DEF RfmInv, OneKind
  <2>4. FlagsExact'
    <3>1. \A r \in Ranks : 1 \in WaitingAll(r) <=> r = RankOf[b]
      BY <1>3, <1>a DEF WaitingAll
    <3>2. \A x \in Banks : Waiting(x) = {}
      BY <2>3 DEF RfmInv, OneKind, Waiting
    <3>3. \A r \in Ranks : rfm_pending_all_bank'[r] <=> WaitingAll(r)' # {}
      <4> SUFFICES ASSUME NEW r \in Ranks PROVE rfm_pending_all_bank'[r] <=> WaitingAll(r)' # {}
        OBVIOUS
      <4>1. CASE r = RankOf[b]
        <5>1. \A i \in WaitingAll(r) : i = 1
          BY <3>1, <4>1 DEF RfmInv, FlagsExact
        <5>2. \A i : i \notin WaitingAll(r)'
          BY <1>d, <5>1
        <5> QED BY <1>0, <1>a, <2>1, <4>1, <5>2
      <4>2. CASE r # RankOf[b]
        BY <1>0, <1>f, <2>1, <3>1, <4>2 DEF RfmInv, FlagsExact
      <4> QED BY <4>1, <4>2
    <3>4. \A x \in Banks : ~rfm_pending_bank'[x] /\ Waiting(x)' = {}
      BY <1>0, <1>d, <2>1, <3>2 DEF RfmInv, FlagsExact
    <3> QED BY <1>g, <3>3, <3>4 DEF FlagsExact
  <2>5. ReliefQueued'
    <3> SUFFICES ASSUME ~Reopens, NEW x \in Banks, act_count_since_rfm'[x] >= Threshold
                 PROVE  rfm_pending_all_bank'[RankOf[x]]
      BY <2>3 DEF ReliefQueued
    <3>1. act_count_since_rfm[x] \in Nat /\ act_count_since_rfm[x] <= Threshold
          /\ Less(act_count_since_rfm[x]) < Threshold /\ Less(act_count_since_rfm[x]) \in Nat
      BY <1>0, <1>b DEF RfmInv, ActsBounded
    <3>2. RankOf[x] # RankOf[b] /\ act_count_since_rfm'[x] = act_count_since_rfm[x]
      BY <1>0, <2>1, <3>1
    <3>3. rfm_pending_all_bank[RankOf[x]]
      BY <2>3, <3>2 DEF RfmInv, ReliefQueued
    <3> QED BY <1>0, <2>1, <3>2, <3>3
  <2> QED BY <1>c, <2>2, <2>4, <2>5 DEF RfmInv
<1> QED BY <1>1, <1>2, <1>3, <1>a DEF RfmCommands

\* Queuing other maintenance keeps the invariant.
LEMMA RfmOtherInv == ASSUME RfmInv, NEW b \in Banks, ScheduleOther(b) PROVE RfmInv'
<1> DEFINE c == [cmd |-> "other", bank |-> b]
<1>1. /\ queue' = Append(queue, c) /\ c \in RfmCommands /\ queue \in Seq(RfmCommands)
      /\ UNCHANGED <<act_count_since_rfm, rfm_pending_bank, rfm_pending_all_bank>>
  BY DEF RfmInv, RfmTypeOK, ScheduleOther, RfmCommands
<1>2. RfmTypeOK' /\ OneKind' /\ ReliefQueued' /\ ActsBounded'
  BY <1>1, Appended DEF RfmInv, RfmTypeOK, OneKind, ReliefQueued, ActsBounded
<1>3. (\A x \in Banks : Waiting(x)' = Waiting(x)) /\ (\A r \in Ranks : WaitingAll(r)' = WaitingAll(r))
  BY <1>1, Appended DEF Waiting, WaitingAll
<1> QED BY <1>1, <1>2, <1>3 DEF RfmInv, FlagsExact

\* Every step keeps the invariant.
LEMMA RfmStepInv == RfmInv /\ [RfmNext]_rfmVars => RfmInv'
<1> SUFFICES ASSUME RfmInv, [RfmNext]_rfmVars PROVE RfmInv'
  OBVIOUS
<1>1. ASSUME NEW b \in Banks, Activate(b) PROVE RfmInv'
  <2>1. act_count_since_rfm[b] < Threshold \/ Reopens
    <3>1. queue = <<>>
      BY <1>1 DEF Activate, OrdinaryMay
    <3>2. ~rfm_pending_bank[b] /\ ~rfm_pending_all_bank[RankOf[b]]
      BY <3>1, RfmAssumption DEF RfmInv, RfmTypeOK, FlagsExact, Waiting, WaitingAll
    <3> QED BY <3>2, RfmAssumption DEF RfmInv, RfmTypeOK, ReliefQueued
  <2> QED BY <1>1, <2>1, RfmActivateInv DEF Activate
<1>2. ASSUME NEW b \in Banks, Reactivate(b) PROVE RfmInv'
  BY <1>2, RfmActivateInv DEF Reactivate
<1>3. CASE UNCHANGED rfmVars
  BY <1>3 DEF rfmVars, RfmInv, RfmTypeOK, OneKind, FlagsExact, ReliefQueued, ActsBounded, Waiting, WaitingAll
<1> QED BY <1>1, <1>2, <1>3, RfmOtherInv, RfmIssueInv DEF RfmNext

LEMMA RfmAlways == RfmSpec => []RfmInv
  BY RfmInitInv, RfmStepInv, PTL DEF RfmSpec

\* Counts, flags and the queue keep their types (rfm.cpp, RfmManager).
THEOREM RfmTypeCorrect == RfmSpec => []RfmTypeOK
  BY RfmAlways, PTL DEF RfmInv

\* A flag is up exactly while one RFM waits for its bank or rank (rfm.cpp:45-62, 79, 92, 97).
THEOREM FlagsAreExact == RfmSpec => []FlagsExact
  BY RfmAlways, PTL DEF RfmInv

\* No bank goes past the threshold (rfm.cpp:39-43 with Controller::choose), whatever is queued.
THEOREM ActivationsBounded == RfmSpec => []ActsBounded
  BY RfmAlways, PTL DEF RfmInv

\* A bank at its threshold has its RFM queued (rfm.cpp:45-62).
THEOREM ReliefIsQueued == RfmSpec => []ReliefQueued
  BY RfmAlways, PTL DEF RfmInv
============================================================================
