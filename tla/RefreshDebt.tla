---------------------------- MODULE RefreshDebt ----------------------------
(***************************************************************************)
(* mem_sim's RefreshManager (src/mem_sim/src/controller/refresh.cpp): the     *)
(* ledger of refresh obligations of each rank, which the controller's tick    *)
(* asks whether to postpone a refresh, catch up, or pull one in, and the      *)
(* rotation over banks that decides whom a batch refreshes.                  *)
(*                                                                         *)
(* A tick of the manager is one action. The clock is kept as the ticks left   *)
(* to the next deadline; ticks are skipped while the channel leaves a         *)
(* low-power state.  Whether the controller has ordinary work, or nothing at  *)
(* all to do, is free.  age is a history variable: the deadlines passed since *)
(* each bank was last in a batch.                                           *)
(***************************************************************************)
EXTENDS Integers, FiniteSets, FiniteSetsExt

CONSTANTS Configs           \* the configurations a behaviour may have: records of

Fields ==
    {"rank_count", "sid_count", "bank_groups", "banks_per_group",
     "all_bank",                    \* refresh_policy = AllBank
     "dual_bank",                   \* lpddr_dual_bank_refresh: REFdb
     "interval",                    \* refresh_interval, in ticks
     "postpone_limit", "pullin_limit", "credit_limit",
     "max_skip"}                    \* bound: ticks of the controller between two of the manager

\* What the configurations must be.
RefreshAssumption ==
    \A c \in Configs :
        /\ DOMAIN c = Fields
        /\ {c.rank_count, c.sid_count, c.bank_groups, c.banks_per_group, c.interval, c.max_skip} \subseteq Nat \ {0}
        /\ {c.postpone_limit, c.pullin_limit, c.credit_limit} \subseteq Nat
        /\ {c.all_bank, c.dual_bank} \subseteq BOOLEAN
        /\ c.dual_bank => c.bank_groups % 2 = 0        \* demanded by the configuration's validation

VARIABLES
    cfg,            \* the configuration; it never changes
    rank_states,    \* per rank: wait, credit, postpone_count, pullin_count, flat, sid
    rank_cursor,
    age
vars == <<cfg, rank_states, rank_cursor, age>>

RankCount == cfg.rank_count
Interval == cfg.interval
RankIds == 0..(RankCount - 1)
BankIds == (0..(cfg.sid_count - 1)) \X (0..(cfg.bank_groups - 1)) \X (0..(cfg.banks_per_group - 1))

Init ==
    /\ cfg \in Configs
    /\ rank_states = [r \in RankIds |-> [wait |-> Interval, credit |-> 0, postpone_count |-> 0, pullin_count |-> 0,
                                       flat |-> 0, sid |-> 0]]
    /\ rank_cursor = 0
    /\ age = [r \in RankIds |-> [b \in BankIds |-> 0]]

-----------------------------------------------------------------------------
(* Deadlines and targets                                                     *)

\* How many deadlines dt ticks pass.
Passed(s, dt) == IF dt < s.wait THEN 0 ELSE 1 + (dt - s.wait) \div Interval
Overdue(s, dt) ==
    LET n == Passed(s, dt)  c == s.credit + n
    IN  [s EXCEPT !.wait = @ - dt + n * Interval, !.credit = c, !.pullin_count = IF c >= 0 THEN 0 ELSE @]

PositionsPerSid == IF cfg.dual_bank THEN Max({1, cfg.bank_groups \div 2}) * cfg.banks_per_group ELSE cfg.bank_groups * cfg.banks_per_group
\* lpddr_refdb_partner: the other group of the pair.
Partner(b) == IF cfg.bank_groups < 2 THEN b ELSE <<b[1], IF b[2] % 2 = 0 THEN b[2] + 1 ELSE b[2] - 1, b[3]>>
\* The banks a batch refreshes (the same ones in every pseudo-channel).
Targets(s) ==
    IF cfg.all_bank THEN BankIds
    ELSE IF cfg.dual_bank
         THEN LET first == <<s.sid, (s.flat \div cfg.banks_per_group) * 2, s.flat % cfg.banks_per_group>> IN {first, Partner(first)}
         ELSE {<<s.sid, s.flat \div cfg.banks_per_group, s.flat % cfg.banks_per_group>>}
\* The cursors after a batch; REFab moves none.
Rotated(s) ==
    IF cfg.all_bank THEN s
    ELSE IF s.flat + 1 >= PositionsPerSid THEN [s EXCEPT !.flat = 0, !.sid = (@ + 1) % cfg.sid_count]
         ELSE [s EXCEPT !.flat = @ + 1]

-----------------------------------------------------------------------------
(* tick                                                                      *)

\* The rank that comes at offset o.
At(o) == (rank_cursor + o) % RankCount
CanPostpone(s, newly, busy) ==
    /\ newly /\ busy /\ s.postpone_count < cfg.postpone_limit
    /\ cfg.credit_limit = 0 \/ s.credit <= cfg.credit_limit
\* Fault: they wait for the next deadline even when ordinary work is over.
WaitsAlways(s, newly, busy) == ~newly /\ s.postpone_count > 0 /\ s.postpone_count < cfg.postpone_limit
\* Postponed obligations wait between deadlines.
Waits(s, newly, busy) ==
    ~CanPostpone(s, newly, busy) /\ busy /\ ~newly /\ s.postpone_count > 0 /\ s.postpone_count < cfg.postpone_limit
\* Fault: a batch pays for everything that is due.
AllPaid(s) == [Rotated(s) EXCEPT !.credit = 0, !.postpone_count = 0]
Batch(s) ==
    LET done == [Rotated(s) EXCEPT !.credit = @ - 1]
    IN  [done EXCEPT !.postpone_count = IF done.credit <= 0 THEN 0 ELSE @]
Postponed(s) == [s EXCEPT !.postpone_count = @ + 1]
CanPullIn(s) == s.credit = 0 /\ s.wait <= Interval \div 2 /\ s.pullin_count < cfg.pullin_limit
PulledIn(s) == [Rotated(s) EXCEPT !.credit = @ - 1, !.pullin_count = @ + 1]

Aged(dt) == [r \in RankIds |-> [b \in BankIds |-> age[r][b] + Passed(rank_states[r], dt)]]
Refreshed(a, r, s) == [a EXCEPT ![r] = [b \in BankIds |-> IF b \in Targets(s) THEN 0 ELSE a[r][b]]]

\* Low power is only entered, and ticks are only skipped, when there is nothing left to do, no refresh either.
MaySkip(dt) == dt = 1 \/ \A r \in RankIds : rank_states[r].credit <= 0
\* busy: there is ordinary work; idle: there is nothing at all to do.
Tick(dt, busy, idle) ==
    LET due == [r \in RankIds |-> Overdue(rank_states[r], dt)]
        newly(r) == Passed(rank_states[r], dt) > 0
        owing == {o \in 0..(RankCount - 1) : due[At(o)].credit > 0 /\ ~Waits(due[At(o)], newly(At(o)), busy)}
        early == {o \in 0..(RankCount - 1) : CanPullIn(due[At(o)])}
    IN  /\ MaySkip(dt) /\ UNCHANGED cfg
        /\ \/ /\ owing # {}
              /\ LET r == At(Min(owing))
                 IN  /\ rank_cursor' = (r + 1) % RankCount
                     /\ \/ /\ CanPostpone(due[r], newly(r), busy)
                           /\ rank_states' = [due EXCEPT ![r] = Postponed(@)]
                           /\ age' = Aged(dt)
                        \/ /\ ~CanPostpone(due[r], newly(r), busy)
                           /\ rank_states' = [due EXCEPT ![r] = Batch(@)]
                           /\ age' = Refreshed(Aged(dt), r, due[r])
           \/ /\ owing = {} /\ idle /\ early # {}
              /\ LET r == At(Min(early))
                 IN  /\ rank_cursor' = (r + 1) % RankCount
                     /\ rank_states' = [due EXCEPT ![r] = PulledIn(@)]
                     /\ age' = Refreshed(Aged(dt), r, due[r])
           \/ /\ owing = {} /\ ~(idle /\ early # {})
              /\ rank_states' = due /\ age' = Aged(dt) /\ UNCHANGED rank_cursor

Working == \E dt \in 1..cfg.max_skip : Tick(dt, TRUE, FALSE)
Draining == \E dt \in 1..cfg.max_skip : Tick(dt, FALSE, FALSE)
Idle == \E dt \in 1..cfg.max_skip : Tick(dt, FALSE, TRUE)
Next == Working \/ Draining \/ Idle

Spec == Init /\ [][Next]_vars
\* The controller's clock runs.
FairSpec == Spec /\ WF_vars(Next)

-----------------------------------------------------------------------------
(* Properties of one rank, and of several that postpone nothing               *)

TypeOK ==
    /\ \A r \in RankIds :
           LET s == rank_states[r]
           IN  /\ s.wait \in 1..Interval /\ s.credit \in Int
               /\ s.postpone_count \in 0..cfg.postpone_limit /\ s.pullin_count \in 0..cfg.pullin_limit
               /\ s.flat \in 0..(PositionsPerSid - 1) /\ s.sid \in 0..(cfg.sid_count - 1)
    /\ rank_cursor \in RankIds

\* Deadlines that may pass before the manager is asked again.
MissedAtOnce == 1 + (cfg.max_skip - 1) \div Interval
Postponable == IF cfg.credit_limit = 0 THEN cfg.postpone_limit ELSE Min({cfg.postpone_limit, cfg.credit_limit})
DebtLimit == Max({1, Postponable}) + MissedAtOnce - 1
\* A rank never owes more than the limits allow, whatever the others do and however long ordinary
\* work goes on, and never runs more than one refresh ahead.
DebtBounded == \A r \in RankIds : rank_states[r].credit \in (-1)..DebtLimit

\* What refresh is for: no bank waits for more deadlines than a whole rotation and the debt its rank
\* may have, early refreshes or not.
Rotation == IF cfg.all_bank THEN 1 ELSE cfg.sid_count * PositionsPerSid
RetentionKept == \A r \in RankIds, b \in BankIds : age[r][b] <= Rotation + DebtLimit

\* Once ordinary work is over, every rank pays what it owes: a debt only lasts while there are ticks
\* that only ordinary work explains.
AllRanks == UNION {0..(c.rank_count - 1) : c \in Configs}
DebtRepaid ==
    []<><<Working /\ ~Draining /\ ~Idle>>_vars \/ \A r \in AllRanks : []<>(r \in RankIds => rank_states[r].credit <= 0)

=============================================================================
